---- MODULE Spec2Model ----
(***************************************************************************)
(* CompanyBrain AI: the query orchestration path.                          *)
(*                                                                         *)
(*   POST /query = withSecurity(handleQuery, {rateLimit: 50, ...})         *)
(*     handleQuery -> sanitizeInput -> planInformationNeeds -> multiSearch *)
(*                 -> generateAIResponse -> callGeminiAPI                  *)
(*                                                                         *)
(* Strings are sequences of one-character strings, so that sanitizing,     *)
(* trimming and the planner's regular expressions are computed character   *)
(* by character as the code computes them.                                 *)
(***************************************************************************)
EXTENDS Integers, Sequences, FiniteSets, Bags, TLC

(***************************************************************************)
(* Characters and strings                                                  *)
(***************************************************************************)
UpperLetters == <<"A","B","C","D","E","F","G","H","I","J","K","L","M",
                  "N","O","P","Q","R","S","T","U","V","W","X","Y","Z">>

LowerLetters == <<"a","b","c","d","e","f","g","h","i","j","k","l","m",
                  "n","o","p","q","r","s","t","u","v","w","x","y","z">>

Digits == {"0","1","2","3","4","5","6","7","8","9"}

\* The character U+000B (vertical tab, "\v" in the source's language),
\* written as itself between the quotes.
VerticalTab == ""

\* JavaScript \s and String.prototype.trim: the white space of the character
\* set the inputs are written in (space, tab, line feed, vertical tab, form
\* feed, carriage return).
Whitespace == {" ", "\t", "\n", VerticalTab, "\f", "\r"}

Range(s) == {s[i] : i \in 1..Len(s)}

\* String.prototype.toLowerCase and the regular expressions' /i flag.
UpperSet == {UpperLetters[i] : i \in 1..26}

WordChars ==
    UpperSet \cup {LowerLetters[i] : i \in 1..26} \cup Digits \cup {"_"}

LowerOf ==
    [c \in UpperSet |-> LowerLetters[CHOOSE i \in 1..26 : UpperLetters[i] = c]]

toLowerCase(c) == IF c \in UpperSet THEN LowerOf[c] ELSE c

LowerStr(s) == [i \in 1..Len(s) |-> toLowerCase(s[i])]

\* String.prototype.toUpperCase
toUpperCase(s) ==
    [i \in 1..Len(s) |->
        IF \E k \in 1..26 : LowerLetters[k] = s[i]
        THEN UpperLetters[CHOOSE k \in 1..26 : LowerLetters[k] = s[i]]
        ELSE s[i]]

\* The regular expressions' \w.
IsWordChar(c) == c \in WordChars

\* pat (lower case) occurs in s at position i, ignoring case.
MatchesAt(s, pat, i) ==
    /\ i >= 1
    /\ i + Len(pat) - 1 <= Len(s)
    /\ \A k \in 1..Len(pat) : toLowerCase(s[i + k - 1]) = pat[k]

\* RegExp.prototype.test for a literal pattern with the /i flag.
Contains(s, pat) == \E i \in 1..Len(s) : MatchesAt(s, pat, i)

\* String.prototype.trim.
trim(s) ==
    LET keep == {i \in 1..Len(s) : s[i] \notin Whitespace}
    IN  IF keep = {} THEN <<>>
        ELSE LET lo == CHOOSE i \in keep : \A j \in 1..(i - 1) : j \notin keep
                 hi == CHOOSE i \in keep : \A j \in (i + 1)..Len(s) : j \notin keep
             IN  SubSeq(s, lo, hi)

\* Array.prototype.join for an array of strings.
RECURSIVE join(_, _)
join(parts, sep) ==
    IF Len(parts) = 0 THEN <<>>
    ELSE IF Len(parts) = 1 THEN parts[1]
    ELSE parts[1] \o sep \o join(Tail(parts), sep)

\* Array.from(new Set(xs)): the first occurrence of every element, in order.
RECURSIVE Dedupe(_)
Dedupe(xs) ==
    IF Len(xs) = 0 THEN <<>>
    ELSE LET front == Dedupe(SubSeq(xs, 1, Len(xs) - 1))
             last  == xs[Len(xs)]
         IN  IF last \in Range(front) THEN front ELSE Append(front, last)

(***************************************************************************)
(* String literals of the source                                           *)
(***************************************************************************)
S_javascript == <<"j","a","v","a","s","c","r","i","p","t",":">>
S_on         == <<"o","n">>
S_revenue    == <<"r","e","v","e","n","u","e">>
S_sales      == <<"s","a","l","e","s">>
S_net        == <<"n","e","t">>
S_income     == <<"i","n","c","o","m","e">>
S_netincome  == <<"n","e","t"," ","i","n","c","o","m","e">>
S_profit     == <<"p","r","o","f","i","t">>
S_ebitda     == <<"e","b","i","t","d","a">>
S_assets     == <<"a","s","s","e","t","s">>
S_liabilities == <<"l","i","a","b","i","l","i","t","i","e","s">>
S_equity     == <<"e","q","u","i","t","y">>

(***************************************************************************)
(* sanitizeInput (lib/security.ts)                                         *)
(***************************************************************************)
\* .replace(/[<>]/g, '')
RemoveAngleBrackets(s) == SelectSeq(s, LAMBDA c : c \notin {"<", ">"})

\* .replace(/javascript:/gi, ''): the matches are taken leftmost first, and
\* the scan resumes after each match.
RECURSIVE RemoveJavascriptFrom(_, _)
RemoveJavascriptFrom(s, i) ==
    LET starts == {k \in i..Len(s) : MatchesAt(s, S_javascript, k)}
    IN  IF starts = {} THEN SubSeq(s, i, Len(s))
        ELSE LET p == CHOOSE k \in starts : \A m \in i..(k - 1) : m \notin starts
             IN  SubSeq(s, i, p - 1)
                 \o RemoveJavascriptFrom(s, p + Len(S_javascript))

RemoveJavascript(s) == RemoveJavascriptFrom(s, 1)

\* The end of a match of /on\w+=/i that starts at i, or 0: "on", then the
\* whole run of word characters (at least one), then "=".
EventHandlerEnd(s, i) ==
    IF ~MatchesAt(s, S_on, i) THEN 0
    ELSE LET stops == {j \in (i + 2)..Len(s) : ~IsWordChar(s[j])}
         IN  IF stops = {} THEN 0
             ELSE LET j == CHOOSE x \in stops :
                                \A y \in (i + 2)..(x - 1) : y \notin stops
                  IN  IF j > i + 2 /\ s[j] = "=" THEN j ELSE 0

\* .replace(/on\w+=/gi, '')
RECURSIVE RemoveEventHandlersFrom(_, _)
RemoveEventHandlersFrom(s, i) ==
    LET starts == {k \in i..Len(s) : EventHandlerEnd(s, k) > 0}
    IN  IF starts = {} THEN SubSeq(s, i, Len(s))
        ELSE LET p == CHOOSE k \in starts : \A m \in i..(k - 1) : m \notin starts
             IN  SubSeq(s, i, p - 1)
                 \o RemoveEventHandlersFrom(s, EventHandlerEnd(s, p) + 1)

RemoveEventHandlers(s) == RemoveEventHandlersFrom(s, 1)

sanitizeInput(input) ==
    trim(RemoveEventHandlers(RemoveJavascript(RemoveAngleBrackets(input))))

(***************************************************************************)
(* planInformationNeeds (api/simple-dashboard/route.ts)                    *)
(***************************************************************************)
\* /net\s*income/i at position i: "net", any run of whitespace, "income".
NetIncomeAt(s, i) ==
    /\ MatchesAt(s, S_net, i)
    /\ \E j \in (i + 3)..Len(s) :
          /\ \A k \in (i + 3)..(j - 1) : s[k] \in Whitespace
          /\ MatchesAt(s, S_income, j)

\* /\b(19|20)\d{2}\b/ at position i.
YearAt(s, i) ==
    /\ i >= 1
    /\ i + 3 <= Len(s)
    /\ \/ (s[i] = "1" /\ s[i + 1] = "9")
       \/ (s[i] = "2" /\ s[i + 1] = "0")
    /\ s[i + 2] \in Digits
    /\ s[i + 3] \in Digits
    /\ (i = 1 \/ ~IsWordChar(s[i - 1]))
    /\ (i + 3 = Len(s) \/ ~IsWordChar(s[i + 4]))

\* q.match(/\b(19|20)\d{2}\b/g) || []: the matches from left to right (two
\* matches never overlap, each being delimited by word boundaries).
RECURSIVE YearMatchesFrom(_, _)
YearMatchesFrom(s, i) ==
    LET starts == {k \in i..Len(s) : YearAt(s, k)}
    IN  IF starts = {} THEN <<>>
        ELSE LET p == CHOOSE k \in starts : \A m \in i..(k - 1) : m \notin starts
             IN  <<SubSeq(s, p, p + 3)>> \o YearMatchesFrom(s, p + 4)

\* PlannedMetrics as it would be without line 170.
PlannedMetricsNoDefault(userQuery) ==
    (IF Contains(userQuery, S_revenue) \/ Contains(userQuery, S_sales)
     THEN <<S_revenue>> ELSE <<>>)
    \o (IF (\E i \in 1..Len(userQuery) : NetIncomeAt(userQuery, i))
           \/ Contains(userQuery, S_profit)
        THEN <<S_netincome>> ELSE <<>>)
    \o (IF Contains(userQuery, S_ebitda) THEN <<S_ebitda>> ELSE <<>>)
    \o (IF Contains(userQuery, S_assets) THEN <<S_assets>> ELSE <<>>)
    \o (IF Contains(userQuery, S_liabilities) THEN <<S_liabilities>> ELSE <<>>)
    \o (IF Contains(userQuery, S_equity) THEN <<S_equity>> ELSE <<>>)

\* The six keyword tests of lines 163-168, in order, then the default.
PlannedMetrics(userQuery) ==
    LET hits ==
          (IF Contains(userQuery, S_revenue) \/ Contains(userQuery, S_sales)
           THEN <<S_revenue>> ELSE <<>>)
          \o (IF (\E i \in 1..Len(userQuery) : NetIncomeAt(userQuery, i))
                 \/ Contains(userQuery, S_profit)
              THEN <<S_netincome>> ELSE <<>>)
          \o (IF Contains(userQuery, S_ebitda) THEN <<S_ebitda>> ELSE <<>>)
          \o (IF Contains(userQuery, S_assets) THEN <<S_assets>> ELSE <<>>)
          \o (IF Contains(userQuery, S_liabilities) THEN <<S_liabilities>> ELSE <<>>)
          \o (IF Contains(userQuery, S_equity) THEN <<S_equity>> ELSE <<>>)
    IN  IF Len(hits) = 0 THEN <<S_revenue>> ELSE hits

\* MetricYearQueries as it would be without the loop of line 177.
MetricYearQueriesJoined(ms, years) ==
    [k \in 1..Len(ms) |-> ms[k] \o <<" ">> \o join(years, <<" ">>)]

\* The queries pushed for the metrics ms when there are years (lines 175-178).
RECURSIVE MetricYearQueries(_, _)
MetricYearQueries(ms, years) ==
    IF Len(ms) = 0 THEN <<>>
    ELSE <<ms[1] \o <<" ">> \o join(years, <<" ">>)>>
         \o [k \in 1..Len(years) |-> ms[1] \o <<" ">> \o years[k]]
         \o MetricYearQueries(Tail(ms), years)

planInformationNeeds(userQuery) ==
    LET q       == LowerStr(userQuery)
        years   == Dedupe(YearMatchesFrom(q, 1))
        metrics == PlannedMetrics(userQuery)
        base    == trim(userQuery)
        pushed  == IF Len(years) > 0
                   THEN MetricYearQueries(metrics, years)
                   ELSE metrics
    IN  [metrics       |-> Dedupe(metrics),
         years         |-> years,
         entities      |-> <<>>,
         searchQueries |-> Dedupe(<<base>> \o pushed)]

(***************************************************************************)
(* Text of documents: lines, cells, years and numbers                      *)
(* (extractMetricYearFacts, extractRevenueByYearFromCsvContent)            *)
(***************************************************************************)
S_month  == <<"m","o","n","t","h">>
S_csv    == <<"c","s","v">>

\* The least element of a non-empty set of positions.
First(ps) == CHOOSE i \in ps : \A j \in ps : i <= j

\* String.prototype.split for a one-character separator.
RECURSIVE split(_, _)
split(s, sep) ==
    LET at == {i \in 1..Len(s) : s[i] = sep}
    IN  IF at = {} THEN <<s>>
        ELSE <<SubSeq(s, 1, First(at) - 1)>>
             \o split(SubSeq(s, First(at) + 1, Len(s)), sep)

\* text.split(/\r?\n/): a "\r" directly before a "\n" belongs to the
\* separator.
SplitLines(text) ==
    LET pieces == split(text, "\n")
    IN  [i \in 1..Len(pieces) |->
            IF i < Len(pieces) /\ Len(pieces[i]) > 0
               /\ pieces[i][Len(pieces[i])] = "\r"
            THEN SubSeq(pieces[i], 1, Len(pieces[i]) - 1)
            ELSE pieces[i]]

\* lines.filter(Boolean): the non-empty lines.
NonEmptyLines(lines) == SelectSeq(lines, LAMBDA l : Len(l) > 0)

\* String.prototype.includes for one character.
Includes(s, c) == \E i \in 1..Len(s) : s[i] = c

\* /(19|20)\d{2}/ at position i (no word boundaries).
YearDigitsAt(s, i) ==
    /\ i >= 1
    /\ i + 3 <= Len(s)
    /\ \/ (s[i] = "1" /\ s[i + 1] = "9")
       \/ (s[i] = "2" /\ s[i + 1] = "0")
    /\ s[i + 2] \in Digits
    /\ s[i + 3] \in Digits

\* s.match(/(19|20)\d{2}/): the position of the first match, 0 for null.
YearMatch(s) ==
    LET at == {i \in 1..Len(s) : YearDigitsAt(s, i)}
    IN  IF at = {} THEN 0 ELSE First(at)

\* /revenue|net\s*income|assets|liabilities|equity|ebitda/i .test(s)
MentionsMetric(s) ==
    \/ \E kw \in {S_revenue, S_assets, S_liabilities, S_equity, S_ebitda} :
          Contains(s, kw)
    \/ \E i \in 1..Len(s) : NetIncomeAt(s, i)

\* raw.replace(/[^0-9.\-]/g, '')
CleanNumber(raw) == SelectSeq(raw, LAMBDA c : c \in Digits \cup {".", "-"})

DigitValue(c) ==
    CASE c = "0" -> 0 [] c = "1" -> 1 [] c = "2" -> 2 [] c = "3" -> 3
      [] c = "4" -> 4 [] c = "5" -> 5 [] c = "6" -> 6 [] c = "7" -> 7
      [] c = "8" -> 8 [] OTHER -> 9

(***************************************************************************)
(* Numbers: the Number type (IEEE 754 binary64), as parseFloat reads it    *)
(* and as + adds it.  A bit string is a sequence of 0 and 1, the most      *)
(* significant bit first, <<>> for zero.                                   *)
(***************************************************************************)
\* n zeros.
Zeros(n) == [i \in 1..n |-> 0]

\* A bit string without its leading zeros.
StripLeading(b) ==
    LET ones == {i \in 1..Len(b) : b[i] = 1}
    IN  IF ones = {} THEN <<>>
        ELSE SubSeq(b, CHOOSE i \in ones : \A j \in ones : i <= j, Len(b))

\* The number of zeros a bit string ends with.
TrailingZeros(b) ==
    LET ones == {i \in 1..Len(b) : b[i] = 1}
    IN  IF ones = {} THEN Len(b)
        ELSE Len(b) - (CHOOSE i \in ones : \A j \in ones : j <= i)

\* The bit that counts 2^i in b.
BitAt(b, i) == IF i < Len(b) THEN b[Len(b) - i] ELSE 0

\* a + b.  A carry enters 2^i when some lower position makes one (both
\* bits set) and every position between passes it on (a bit set).
AddBits(a, b) ==
    LET n == (IF Len(a) > Len(b) THEN Len(a) ELSE Len(b)) + 1
        Carry(i) ==
            \E j \in 0..(i - 1) :
                /\ BitAt(a, j) + BitAt(b, j) = 2
                /\ \A k \in (j + 1)..(i - 1) : BitAt(a, k) + BitAt(b, k) >= 1
    IN  StripLeading([p \in 1..n |->
            (BitAt(a, n - p) + BitAt(b, n - p)
               + (IF Carry(n - p) THEN 1 ELSE 0)) % 2])

\* a - b, for a >= b.  2^i lends when some lower position borrows (its bit
\* of a below its bit of b) and no position between can pay (its bit of a
\* above its bit of b).
SubBits(a, b) ==
    LET n == Len(a)
        Borrow(i) ==
            \E j \in 0..(i - 1) :
                /\ BitAt(a, j) < BitAt(b, j)
                /\ \A k \in (j + 1)..(i - 1) : BitAt(a, k) <= BitAt(b, k)
    IN  StripLeading([p \in 1..n |->
            (2 + BitAt(a, n - p) - BitAt(b, n - p)
               - (IF Borrow(n - p) THEN 1 ELSE 0)) % 2])

\* a < b, for bit strings without leading zeros.
LessBits(a, b) ==
    \/ Len(a) < Len(b)
    \/ /\ Len(a) = Len(b)
       /\ \E i \in 1..Len(a) :
             a[i] < b[i] /\ \A j \in 1..(i - 1) : a[j] = b[j]

\* The bits of a natural number.
RECURSIVE NatBits(_)
NatBits(n) == IF n = 0 THEN <<>> ELSE Append(NatBits(n \div 2), n % 2)

\* 10 * b + d, for a decimal digit d.
TimesTenPlus(b, d) ==
    AddBits(AddBits(b \o <<0, 0, 0>>, b \o <<0>>), NatBits(d))

\* The number the digits ds denote from digit i on, value being the number
\* of the digits before.
RECURSIVE DigitsFrom(_, _, _)
DigitsFrom(ds, i, value) ==
    IF Len(value) >= 0 /\ i > Len(ds) THEN value
    ELSE DigitsFrom(ds, i + 1, TimesTenPlus(value, DigitValue(ds[i])))

\* The number a string of decimal digits denotes.
DigitsValue(ds) == DigitsFrom(ds, 1, <<>>)

\* 10^n
Pow10(n) == DigitsValue(<<"1">> \o [i \in 1..n |-> "0"])

\* The long division of n by d # 0 from position i of n on, rem being the
\* remainder and q the quotient of the bits before i: the quotient, and
\* whether the division leaves no remainder.
RECURSIVE DivideFrom(_, _, _, _, _)
DivideFrom(n, d, i, rem, q) ==
    IF Len(q) >= 0 /\ i > Len(n)
    THEN [quotient |-> StripLeading(q), exact |-> Len(rem) = 0]
    ELSE LET r == StripLeading(Append(rem, n[i]))
         IN  IF LessBits(r, d)
             THEN DivideFrom(n, d, i + 1, r, Append(q, 0))
             ELSE DivideFrom(n, d, i + 1, SubBits(r, d), Append(q, 1))

\* A Number.  A finite number is mantissa * 2^exponent, negated when
\* negative; its mantissa starts and ends with 1, so that equal numbers are
\* equal records, and zero is the empty mantissa with exponent 0 (-0 is not
\* told from 0: no sum of the code and no JSON text tells them apart).
Zero ==
    [nan |-> FALSE, infinite |-> FALSE, negative |-> FALSE, mantissa |-> <<>>,
     exponent |-> 0]

\* Number.NaN
NaN == [Zero EXCEPT !.nan = TRUE]

\* Infinity and -Infinity
Infinity(negative) == [Zero EXCEPT !.infinite = TRUE, !.negative = negative]

\* mantissa * 2^exponent for a mantissa of at most 53 significant bits: the
\* number's record, Infinity from 2^1024 on.
Finite(negative, mantissa, exponent) ==
    LET z == TrailingZeros(mantissa)
        m == SubSeq(mantissa, 1, Len(mantissa) - z)
    IN  IF Len(m) = 0 THEN Zero
        ELSE IF exponent + Len(mantissa) - 1 >= 1024 THEN Infinity(negative)
        ELSE [Zero EXCEPT !.negative = negative, !.mantissa = m,
                          !.exponent = exponent + z]

\* The double nearest to bits * 2^exponent, or to a value between that and
\* (bits + 1) * 2^exponent when inexact (then bits has more than 54 bits):
\* 53 bits are kept, fewer below 2^-1022, and the rest is rounded to the
\* nearest, a tie to the even mantissa.
Round(negative, bits, exponent, inexact) ==
    LET L     == Len(bits)
        top   == exponent + L - 1
        p     == IF top >= 0 - 1022 THEN 53 ELSE 53 - ((0 - 1022) - top)
        keep  == IF p < 0 THEN 0 ELSE IF p > L THEN L ELSE p
        kept  == SubSeq(bits, 1, keep)
        half  == p >= 0 /\ keep < L /\ bits[keep + 1] = 1
        more  == inexact \/ \E i \in (keep + 2)..L : bits[i] = 1
        odd   == keep > 0 /\ bits[keep] = 1
        m     == IF half /\ (more \/ odd) THEN AddBits(kept, <<1>>) ELSE kept
    IN  Finite(negative, m, exponent + (L - keep))

\* The number of an integer.
Whole(n) ==
    Round(n < 0, NatBits(IF n < 0 THEN 0 - n ELSE n), 0, FALSE)

\* The number of the decimal literal <digits>e-<places>: the quotient of
\* the digits' value by 10^places, taken to 55 bits or more and rounded.
Decimal(negative, digits, places) ==
    LET n == DigitsValue(digits)
        d == Pow10(places)
        k == IF 55 + Len(d) > Len(n) THEN 55 + Len(d) - Len(n) ELSE 0
        q == DivideFrom(n \o Zeros(k), d, 1, <<>>, <<>>)
    IN  IF Len(n) = 0 THEN Zero
        ELSE IF places = 0 THEN Round(negative, n, 0, FALSE)
        ELSE Round(negative, q.quotient, 0 - k, ~q.exact)

\* a + b
Plus(a, b) ==
    IF a.nan \/ b.nan THEN NaN
    ELSE IF a.infinite \/ b.infinite
    THEN IF a.infinite /\ b.infinite /\ a.negative # b.negative THEN NaN
         ELSE IF a.infinite THEN a ELSE b
    ELSE IF Len(a.mantissa) = 0 THEN b
    ELSE IF Len(b.mantissa) = 0 THEN a
    ELSE LET e == IF a.exponent < b.exponent THEN a.exponent ELSE b.exponent
             x == a.mantissa \o Zeros(a.exponent - e)
             y == b.mantissa \o Zeros(b.exponent - e)
         IN  IF a.negative = b.negative
             THEN Round(a.negative, AddBits(x, y), e, FALSE)
             ELSE IF x = y THEN Zero
             ELSE IF LessBits(x, y)
             THEN Round(b.negative, SubBits(y, x), e, FALSE)
             ELSE Round(a.negative, SubBits(x, y), e, FALSE)

\* value || 0
OrZero(value) == IF value.nan THEN Zero ELSE value

\* The length of the run of digits of s that starts at position i.
DigitRun(s, i) ==
    LET stops == {k \in i..Len(s) : s[k] \notin Digits}
    IN  (IF stops = {} THEN Len(s) + 1 ELSE First(stops)) - i

\* parseFloat(s): leading white space is skipped; then the longest prefix
\* that is a decimal number is read: an optional sign, and digits with an
\* optional "." and more digits, or "." and digits.  No digit is NaN.
\* (An exponent and the literal "Infinity" do not occur in what the callers
\* pass: they keep digits, "." and "-" only.)
parseFloat(s) ==
    LET lead   == {i \in 1..Len(s) : s[i] \notin Whitespace}
        t      == IF lead = {} THEN <<>> ELSE SubSeq(s, First(lead), Len(s))
        signed == Len(t) > 0 /\ t[1] \in {"-", "+"}
        neg    == Len(t) > 0 /\ t[1] = "-"
        body   == IF signed THEN Tail(t) ELSE t
        n      == DigitRun(body, 1)
        hasDot == n < Len(body) /\ body[n + 1] = "."
        f      == IF hasDot THEN DigitRun(body, n + 2) ELSE 0
    IN  IF n + f = 0 THEN NaN
        ELSE Decimal(neg, SubSeq(body, 1, n) \o SubSeq(body, n + 2, n + 1 + f), f)

\* headers.findIndex(h => test(h)), counted from 1; 0 for -1.
\* at: the positions whose element passes the test.
FindIndex(at) == IF at = {} THEN 0 ELSE First(at)

\* cols[idx]: the cell, or undefined (here: absent).
HasCell(cols, idx) == idx >= 1 /\ idx <= Len(cols)

\* parseFloat(cols[idx]?.trim()?.replace(/[^0-9.\-]/g, '') || '')
CellNumber(cols, idx) ==
    IF HasCell(cols, idx) THEN parseFloat(CleanNumber(trim(cols[idx]))) ELSE NaN

\* AddTo as it would be if the cell replaced the sum.
AddToOverwriting(record, key, v) ==
    [k \in DOMAIN record \cup {key} |-> IF k = key THEN v ELSE record[k]]

\* record[key] = (record[key] || 0) + v
AddTo(record, key, v) ==
    [k \in DOMAIN record \cup {key} |->
        IF k = key
        THEN Plus(IF key \in DOMAIN record THEN OrZero(record[key]) ELSE Zero, v)
        ELSE record[k]]

\* {}: a Record<string, number> without keys.
EmptyRecord == [k \in {} |-> Zero]

(***************************************************************************)
(* extractRevenueByYearFromCsvContent and the financial block              *)
(***************************************************************************)
\* The loop of lines 403-418 from line i on.
RECURSIVE RevenueRows(_, _, _, _, _)
RevenueRows(lines, i, monthIdx, revenueIdx, revenueByYear) ==
    IF i > Len(lines) THEN revenueByYear
    ELSE LET row     == lines[i]
             cols    == split(row, ",")
             revenue == CellNumber(cols, revenueIdx)
             monthVal == IF HasCell(cols, monthIdx) THEN cols[monthIdx] ELSE <<>>
             m       == YearMatch(monthVal)
         IN  IF ~Includes(row, ",") \/ revenue.nan \/ monthIdx = 0 \/ m = 0
             THEN RevenueRows(lines, i + 1, monthIdx, revenueIdx, revenueByYear)
             ELSE RevenueRows(lines, i + 1, monthIdx, revenueIdx,
                              AddTo(revenueByYear, SubSeq(monthVal, m, m + 3),
                                    revenue))

extractRevenueByYearFromCsvContent(content) ==
    LET lines     == NonEmptyLines(SplitLines(content))
        headerIdx == FindIndex({i \in 1..Len(lines) :
                                  Includes(lines[i], ",") /\ Contains(lines[i], S_revenue)})
    IN  IF headerIdx = 0 THEN EmptyRecord
        ELSE LET pieces     == split(lines[headerIdx], ",")
                 headers    == [k \in 1..Len(pieces) |-> trim(pieces[k])]
                 monthIdx   == FindIndex({k \in 1..Len(headers) : Contains(headers[k], S_month)})
                 revenueIdx == FindIndex({k \in 1..Len(headers) : Contains(headers[k], S_revenue)})
             IN  IF revenueIdx = 0 THEN EmptyRecord
                 ELSE RevenueRows(lines, headerIdx + 1, monthIdx, revenueIdx,
                                  EmptyRecord)

\* for (const [y, v] of Object.entries(found)) financials[y] = (financials[y] || 0) + v
AddAll(financials, found) ==
    [y \in DOMAIN financials \cup DOMAIN found |->
        IF y \in DOMAIN found
        THEN Plus(IF y \in DOMAIN financials THEN OrZero(financials[y])
                  ELSE Zero,
                  found[y])
        ELSE financials[y]]

\* generateAIResponse, lines 366-374: the revenue of the csv documents whose
\* content mentions revenue.
RECURSIVE Financials(_)
Financials(searchResults) ==
    IF Len(searchResults) = 0 THEN EmptyRecord
    ELSE LET doc  == searchResults[Len(searchResults)]
             rest == Financials(SubSeq(searchResults, 1, Len(searchResults) - 1))
         IN  IF doc.type = S_csv /\ Contains(doc.content, S_revenue)
             THEN AddAll(rest, extractRevenueByYearFromCsvContent(doc.content))
             ELSE rest

(***************************************************************************)
(* extractMetricYearFacts                                                  *)
(***************************************************************************)
\* metricIdxMap[h.toLowerCase()] = i for every header: the last column of a
\* name (counted from 1).
MetricIdx(headers, key) ==
    CHOOSE i \in 1..Len(headers) :
        /\ LowerStr(headers[i]) = key
        /\ \A j \in (i + 1)..Len(headers) : LowerStr(headers[j]) # key

\* The facts of one row (lines 249-256), one per wanted column that parses.
RECURSIVE RowFacts(_, _, _, _, _)
RowFacts(cols, headers, wanted, year, src) ==
    IF Len(wanted) = 0 THEN <<>>
    ELSE LET mk  == wanted[1]
             val == CellNumber(cols, MetricIdx(headers, mk))
             rest == RowFacts(cols, headers, Tail(wanted), year, src)
         IN  IF val.nan THEN rest
             ELSE <<[metric |-> mk, year |-> year, value |-> val,
                     source |-> src]>> \o rest

\* The loop of lines 242-257 from line i on.  String(cols[monthIdx]) of a
\* missing cell is "undefined", which holds no year.
RECURSIVE TableFacts(_, _, _, _, _, _)
TableFacts(lines, i, headers, monthIdx, wanted, src) ==
    IF i > Len(lines) THEN <<>>
    ELSE LET row  == lines[i]
             cols == split(row, ",")
             cell == IF HasCell(cols, monthIdx) THEN cols[monthIdx] ELSE <<>>
             m    == YearMatch(cell)
             rest == TableFacts(lines, i + 1, headers, monthIdx, wanted, src)
         IN  IF ~Includes(row, ",") \/ m = 0 THEN rest
             ELSE RowFacts(cols, headers, wanted, SubSeq(cell, m, m + 3), src)
                  \o rest

\* (revenue|net\s*income|assets|liabilities|equity|ebitda) at position p,
\* ignoring case: the position after the match, 0 when there is none.
KeywordEnd(s, p) ==
    IF \E kw \in {S_revenue, S_assets, S_liabilities, S_equity, S_ebitda} :
          MatchesAt(s, kw, p)
    THEN p + Len(CHOOSE kw \in {S_revenue, S_assets, S_liabilities, S_equity,
                                S_ebitda} : MatchesAt(s, kw, p))
    ELSE IF NetIncomeAt(s, p)
    THEN First({j \in (p + 3)..Len(s) : MatchesAt(s, S_income, j)}) + Len(S_income)
    ELSE 0

\* The first position from i on that holds a digit, 0 when there is none.
NextDigit(s, i) ==
    LET at == {k \in i..Len(s) : s[k] \in Digits}
    IN  IF at = {} THEN 0 ELSE First(at)

\* The position after the run of [\d,.] that starts at f.
NumberEnd(s, f) ==
    LET stops == {k \in f..Len(s) : s[k] \notin Digits \cup {",", "."}}
    IN  IF stops = {} THEN Len(s) + 1 ELSE First(stops)

\* The while loop of lines 263-268: re.exec(text) from position i on, for
\* /(metric)[^\d]*(19|20)\d{2}[^\d]*([\$€£]?[\s]*[\d,.]+)/ig.
\* A match starts at a keyword; [^\d]* runs to the first digit d after it,
\* where (19|20)\d{2} has to match; the second [^\d]* runs to the next digit
\* f, where group 3 takes the run of digits, commas and dots.  When no digit
\* follows the year no later match has a year, and group 3 holds no digit:
\* no fact.  m[2] is the group (19|20).
RECURSIVE FreeTextFacts(_, _, _)
FreeTextFacts(text, i, src) ==
    LET starts == {p \in i..Len(text) :
                     /\ KeywordEnd(text, p) # 0
                     /\ LET d == NextDigit(text, KeywordEnd(text, p))
                        IN  d # 0 /\ YearDigitsAt(text, d)}
    IN  IF starts = {} THEN <<>>
        ELSE LET p == First(starts)
                 a == KeywordEnd(text, p)
                 d == NextDigit(text, a)
                 f == NextDigit(text, d + 4)
             IN  IF f = 0 THEN <<>>
                 ELSE LET g   == NumberEnd(text, f)
                          num == parseFloat(CleanNumber(SubSeq(text, f, g - 1)))
                          rest == FreeTextFacts(text, g, src)
                      IN  IF num.nan THEN rest
                          ELSE <<[metric |-> LowerStr(SubSeq(text, p, a - 1)),
                                  year   |-> SubSeq(text, d, d + 1),
                                  value  |-> num,
                                  source |-> src]>> \o rest

\* The facts of one document (lines 230-268).
DocumentFacts(doc) ==
    LET src       == IF Len(doc.title) > 0 THEN doc.title
                     ELSE IF Len(doc.fileName) > 0 THEN doc.fileName
                     ELSE <<"d","o","c","u","m","e","n","t">>
        lines     == SplitLines(doc.content)
        headerIdx == FindIndex({i \in 1..Len(lines) :
                                  Includes(lines[i], ",") /\ MentionsMetric(lines[i])})
    IN  IF headerIdx # 0
        THEN LET pieces   == split(lines[headerIdx], ",")
                 headers  == [k \in 1..Len(pieces) |-> trim(pieces[k])]
                 monthIdx == FindIndex({k \in 1..Len(headers) :
                                          \/ Contains(headers[k], S_month)
                                          \/ Contains(headers[k], <<"d","a","t","e">>)
                                          \/ Contains(headers[k], <<"p","e","r","i","o","d">>)})
                 metricKeys == Dedupe([k \in 1..Len(headers) |-> LowerStr(headers[k])])
                 wanted   == SelectSeq(metricKeys, MentionsMetric)
             IN  TableFacts(lines, headerIdx + 1, headers, monthIdx, wanted, src)
        ELSE FreeTextFacts(doc.content, 1, src)

RECURSIVE extractMetricYearFacts(_)
extractMetricYearFacts(docs) ==
    IF Len(docs) = 0 THEN <<>>
    ELSE DocumentFacts(docs[1]) \o extractMetricYearFacts(Tail(docs))

(***************************************************************************)
(* Documents of the index and the hits the search calls return             *)
(* (ElasticsearchCompanyDocument, lib/elasticsearch)                       *)
(***************************************************************************)
\* A hit is `_source` plus _id and _score.  hitA and hitB are the same
\* document scored for two different queries; hitC is a document stored
\* without an id field, whose content is longer than an excerpt.
HitNames == {"hitA", "hitB", "hitC"}

Doc(h) ==
    CASE h = "hitA" ->
           [id |-> "doc1", esId |-> "es1", title |-> "Q1 report",
            createdAt |-> "2021-03-01", type |-> "csv", score |-> 3,
            content |-> <<"M","o","n","t","h",",","R","e","v","e","n","u","e","\n",
                          "J","a","n","-","2","0","2","1",",","1","0","0","0">>]
      [] h = "hitB" ->
           [id |-> "doc1", esId |-> "es1", title |-> "Q1 report",
            createdAt |-> "2021-03-01", type |-> "csv", score |-> 1,
            content |-> <<"M","o","n","t","h",",","R","e","v","e","n","u","e","\n",
                          "J","a","n","-","2","0","2","1",",","1","0","0","0">>]
      [] OTHER ->
           [id |-> "", esId |-> "es3", title |-> "Strategy memo",
            createdAt |-> "2020-11-05", type |-> "pdf", score |-> 0,
            content |-> [i \in 1..201 |-> "x"]]

\* The longest hit list one search response carries in the model.
MaxHits == 2

\* What a search call can return for `size`: at most size hits, no document
\* (_id) twice.
ResultLists(size) ==
    LET n == IF size < MaxHits THEN size ELSE MaxHits
    IN  {s \in UNION {[1..k -> HitNames] : k \in 0..n} :
            \A i, j \in 1..Len(s) : i # j => Doc(s[i]).esId # Doc(s[j]).esId}

(***************************************************************************)
(* multiSearch: the merge of one sub-query's results (lines 215-221)       *)
(***************************************************************************)
\* const key = r.id || r._id || `${r.title}:${r.createdAt}`
HitKey(h) ==
    IF Doc(h).id # "" THEN <<Doc(h).id>>
    ELSE IF Doc(h).esId # "" THEN <<Doc(h).esId>>
    ELSE <<Doc(h).title, ":", Doc(h).createdAt>>

\* MergeResults as it would be without the seenIds test.
MergeResultsKeepingAll(merged, results) == merged \o results

\* for (const r of results) { if (!seenIds.has(key)) { ...push } }
RECURSIVE MergeResults(_, _)
MergeResults(merged, results) ==
    IF Len(results) = 0 THEN merged
    ELSE LET r == results[1]
         IN  IF \E i \in 1..Len(merged) : HitKey(merged[i]) = HitKey(r)
             THEN MergeResults(merged, Tail(results))
             ELSE MergeResults(Append(merged, r), Tail(results))

\* SliceFront as it would be if the slice were left out.
SliceFrontWhole(s, n) == s

\* Array.prototype.slice(0, n); a negative n counts from the end.  Also
\* String.prototype.substring(0, n) where n is a positive literal.
SliceFront(s, n) ==
    LET end == IF n < 0
               THEN (IF Len(s) + n > 0 THEN Len(s) + n ELSE 0)
               ELSE (IF n < Len(s) THEN n ELSE Len(s))
    IN  SubSeq(s, 1, end)

\* The sub-queries the loop of line 198 runs: searchQueries.slice(0, 6).
MaxSubQueries == 6

\* const topKPerQuery = Math.max(3, Math.floor(maxResults / 2))
topKPerQuery(maxResults) ==
    IF maxResults \div 2 > 3 THEN maxResults \div 2 ELSE 3

(***************************************************************************)
(* Responses (createErrorResponse, createSuccessResponse, the preflight)   *)
(***************************************************************************)
NoResponse ==
    [status |-> 0, body |-> "none", success |-> FALSE, error |-> "",
     hasData |-> FALSE, answer |-> "", sources |-> <<>>, totalHits |-> 0,
     details |-> "none"]

\* createErrorResponse as it would be if it sent the status alone.
createErrorResponseBare(message, status) ==
    [status |-> status, body |-> "null", success |-> FALSE, error |-> "",
     hasData |-> FALSE, answer |-> "", sources |-> <<>>, totalHits |-> 0,
     details |-> "none"]

\* createErrorResponse(message, status): every call of the query path and of
\* withSecurity passes two arguments, so `details` is undefined and the
\* spread of line 108 adds no details field, whatever NODE_ENV is.
createErrorResponse(message, status) ==
    [status |-> status, body |-> "json", success |-> FALSE, error |-> message,
     hasData |-> FALSE, answer |-> "", sources |-> <<>>, totalHits |-> 0,
     details |-> "none"]

createSuccessResponse(answer, sources, totalHits) ==
    [status |-> 200, body |-> "json", success |-> TRUE, error |-> "",
     hasData |-> TRUE, answer |-> answer, sources |-> sources,
     totalHits |-> totalHits, details |-> "none"]

\* new NextResponse(null, {status: 200, headers}) of the CORS preflight.
PreflightResponse ==
    [status |-> 200, body |-> "null", success |-> FALSE, error |-> "",
     hasData |-> FALSE, answer |-> "", sources |-> <<>>, totalHits |-> 0,
     details |-> "none"]

\* excerpt: doc.content.substring(0, 200) + (doc.content.length > 200 ? '...' : '')
Excerpt(content) ==
    SliceFront(content, 200)
    \o (IF Len(content) > 200 THEN <<".", ".", ".">> ELSE <<>>)

convertToDocumentSources(results) ==
    [i \in 1..Len(results) |->
        [id             |-> Doc(results[i]).id,
         title          |-> Doc(results[i]).title,
         type           |-> Doc(results[i]).type,
         relevanceScore |-> Doc(results[i]).score,
         excerpt        |-> Excerpt(Doc(results[i]).content)]]

\* The three fixed answers of the failure paths.
ApologyUnable ==
    "I apologize, but I was unable to generate a response at this time."

ApologyProcessing ==
    "I apologize, but I'm having trouble processing your question right now. Please try again later."

ApologySearching ==
    "I apologize, but I'm having trouble searching your company knowledge base right now. Please try again later."

\* The candidate text of a well-formed language-model response.
ModelText == "Revenue in 2021 was 3000 (Doc 1)."

(***************************************************************************)
(* generateAIResponse: the search context and the conversation context     *)
(* of the prompt (lines 323-341)                                           *)
(***************************************************************************)
\* searchResults.slice(0, 5)
PromptHits == 5

\* doc.content.substring(0, 300)
PromptContentLength == 300

\* chatHistory.slice(-6)
PromptTurns == 6

\* msg.content.substring(0, 200)
PromptTurnLength == 200

S_ellipsis == <<".", ".", ".">>

\* String.prototype.substring(0, n) followed by '...' for a longer string.
Truncated(s, n) ==
    IF Len(s) > n THEN SubSeq(s, 1, n) \o S_ellipsis ELSE s

\* value || 'N/A'
OrNA(value) == IF value = "" THEN "N/A" ELSE value

\* Array.prototype.slice(-n)
SliceBack(s, n) ==
    IF Len(s) > n THEN SubSeq(s, Len(s) - n + 1, Len(s)) ELSE s

\* SearchContext as it would be without slice(0, 5).
SearchContextOfAll(searchResults) ==
    [count |-> Len(searchResults),
     entries |->
        [i \in 1..Len(searchResults) |->
            [ordinal    |-> i,
             title      |-> searchResults[i].title,
             type       |-> toUpperCase(searchResults[i].type),
             category   |-> OrNA(searchResults[i].category),
             department |-> OrNA(searchResults[i].department),
             content    |-> Truncated(searchResults[i].content,
                                      PromptContentLength)]]]

\* searchContext (lines 324-333): the number of documents found and the
\* entries rendered, empty for no results.
SearchContext(searchResults) ==
    LET shown == SliceFront(searchResults, PromptHits)
    IN  [count |-> Len(searchResults),
         entries |->
            [i \in 1..Len(shown) |->
                [ordinal    |-> i,
                 title      |-> shown[i].title,
                 type       |-> toUpperCase(shown[i].type),
                 category   |-> OrNA(shown[i].category),
                 department |-> OrNA(shown[i].department),
                 content    |-> Truncated(shown[i].content,
                                          PromptContentLength)]]]

\* conversationContext (lines 336-341): the turns rendered.
ConversationContext(chatHistory) ==
    LET shown == SliceBack(chatHistory, PromptTurns)
    IN  [i \in 1..Len(shown) |->
            [role    |-> IF shown[i].isUser THEN "User" ELSE "Assistant",
             content |-> Truncated(shown[i].content, PromptTurnLength)]]

\* No prompt built.
NoPrompt ==
    [financials |-> EmptyRecord, count |-> 0, entries |-> <<>>, turns |-> <<>>,
     question |-> <<>>]

(***************************************************************************)
(* The upload of files (app/chat/page.tsx) and the documents and           *)
(* conversations the context is built from                                 *)
(***************************************************************************)
\* parseFileContent (lines 41-135) for a file of text: the content indexed.
\* A .csv file is rewritten (lines 78-84); the text of a .txt or .md file,
\* and of a .json file that does not parse, is kept as it is; the file name
\* goes in front (line 133).
parseFileContent(file) ==
    LET parts         == split(file.name, ".")
        fileExtension == LowerStr(parts[Len(parts)])
        lines         == split(file.text, "\n")
        headers       == split(lines[1], ",")
        content       ==
            IF fileExtension = S_csv
            THEN <<"C","S","V"," ","D","a","t","a",":","\n","H","e","a","d","e","r","s",":"," ">>
                 \o join(headers, <<",", " ">>) \o <<"\n", "\n">>
                 \o join(Tail(lines), <<"\n">>)
            ELSE file.text
    IN  trim(<<"F","i","l","e",":"," ">> \o file.name \o <<"\n", "\n">> \o content)

\* processUploadedFiles (lines 183-243) for files that pass its checks: one
\* document per file, titled with the file name without its extension
\* (line 217), typed by the extension, with the metadata of the form.
processUploadedFiles(files, additionalMetadata) ==
    [i \in 1..Len(files) |->
        LET name  == files[i].name
            parts == split(name, ".")
            last  == parts[Len(parts)]
        IN  [title      |-> IF Len(parts) > 1 /\ Len(last) > 0 /\ ~Includes(last, "/")
                            THEN SubSeq(name, 1, Len(name) - Len(last) - 1)
                            ELSE name,
             fileName   |-> name,
             type       |-> LowerStr(last),
             category   |-> additionalMetadata.category,
             department |-> additionalMetadata.department,
             content    |-> parseFileContent(files[i])]]

\* A file chosen for upload: its name and its text.
File(name, lines) == [name |-> name, text |-> join(lines, <<"\n">>)]

\* The documents the index holds for the files, uploaded from the finance
\* department's form.
Uploaded(files) ==
    processUploadedFiles(files, [category |-> "", department |-> "finance"])

\* Rows of a table of months and revenue: plain amounts, an amount with a
\* currency sign, a row without a year, fractions, a negative amount, a
\* cell that states no amount, and a fiscal year named by two years.
TableRowInputs ==
    {<<"J","a","n","-","2","0","2","1",",","1","0","0","0">>,
     <<"D","e","c","-","2","0","2","0",",","$","5","0","0">>,
     <<"T","o","t","a","l",",","3","5","0","0">>,
     <<"J","u","n","-","2","0","2","1",",","0",".","1">>,
     <<"J","u","l","-","2","0","2","1",",","0",".","2">>,
     <<"A","u","g","-","2","0","2","1",",","-","0",".","5">>,
     <<"M","a","r","-","2","0","2","1",",","n","/","a">>,
     <<"F","Y","2","0","2","0","-","2","0","2","1",",","7","0","0">>}

\* The most rows a table of the model has.
MaxRows == 2

ExampleRows ==
    <<<<"J","a","n","-","2","0","2","1",",","1","0","0","0">>,
      <<"F","e","b","-","2","0","2","1",",","2","0","0","0">>>>

\* A file whose text is a table headed Month,Revenue with the given rows.
MonthTable(name, rows) == File(name, <<<<"M","o","n","t","h",",","R","e","v","e","n","u","e">>>> \o rows)

\* A ledger whose period column is headed Date.
DateTable ==
    File(<<"l","e","d","g","e","r",".","c","s","v">>, <<<<"D","a","t","e",",","R","e","v","e","n","u","e">>, <<"2","0","2","1","-","0","1","-","0","1",",","1","0","0">>>>)

ProseDocument ==
    File(<<"m","e","m","o",".","t","x","t">>, <<<<"R","e","v","e","n","u","e"," ","i","n"," ","2","0","2","1"," ","w","a","s"," ","1","2","3","4","5">>>>)

\* The results of a search: one table of up to MaxRows rows or of the rows
\* of the example, one document of another kind, or two documents that are
\* found together.
ExtractionInputs ==
    LET RowLists == UNION {[1..n -> TableRowInputs] : n \in 0..MaxRows}
                        \cup {ExampleRows}
        StrategyDocument == File(<<"s","t","r","a","t","e","g","y",".","m","d">>, <<<<"O","u","r"," ","s","t","r","a","t","e","g","y">>>>)
        PairedFiles ==
            {MonthTable(<<"s","a","l","e","s",".","c","s","v">>, ExampleRows),
             MonthTable(<<"s","a","l","e","s",".","t","x","t">>, ExampleRows),
             MonthTable(<<"q","4",".","c","s","v">>, <<<<"D","e","c","-","2","0","2","0",",","$","5","0","0">>>>),
             MonthTable(<<"f","y",".","c","s","v">>, <<<<"F","Y","2","0","2","0","-","2","0","2","1",",","7","0","0">>>>),
             DateTable, ProseDocument}
    IN  {Uploaded(<<MonthTable(<<"s","a","l","e","s",".","c","s","v">>, rows)>>) : rows \in RowLists}
        \cup {Uploaded(<<f>>) : f \in {DateTable, ProseDocument, StrategyDocument}}
        \cup {Uploaded(<<a, b>>) : a \in PairedFiles, b \in PairedFiles}

\* The longest result list and the longest conversation a prompt is built
\* from in the model.
MaxPromptDocuments == 6

MaxTurns == 7

\* Text of n characters that differ from their neighbours.
Text(n) == [k \in 1..n |-> LowerLetters[(k % 26) + 1]]

\* The i-th file of a long result list.  Every fourth file, from the second
\* on, is a table of revenue (of 2021 the second, of 2020 the others); the
\* others are .txt, .md and .json files of text (no JSON), whose indexed
\* content is around the length the prompt cuts at.
PromptFile(i) ==
    LET name == <<"d", Text(i)[i]>>
               \o (CASE i % 4 = 1 -> <<".","t","x","t">> [] i % 4 = 3 -> <<".","m","d">>
                     [] i % 4 = 0 -> <<".","j","s","o","n">> [] OTHER -> <<".","c","s","v">>)
        room == PromptContentLength - 2 + (i % 4) - Len(<<"F","i","l","e",":"," ">>) - Len(name) - 2
    IN  IF i % 4 = 2
        THEN MonthTable(name, IF i = 2 THEN ExampleRows ELSE <<<<"D","e","c","-","2","0","2","0",",","$","5","0","0">>>>)
        ELSE File(name, <<Text(room)>>)

\* The document of the i-th file, uploaded from a form that names a
\* category for two files in three.
PromptDocument(i) ==
    processUploadedFiles(<<PromptFile(i)>>,
                         [category   |-> IF i % 3 = 0 THEN "" ELSE "reports",
                          department |-> ""])[1]

\* A result list of up to MaxPromptDocuments documents, in either order.
PromptInputs ==
    LET PromptDocuments == [i \in 1..MaxPromptDocuments |-> PromptDocument(i)]
        Reversed == [i \in 1..MaxPromptDocuments |->
                        PromptDocuments[MaxPromptDocuments + 1 - i]]
    IN  {SubSeq(PromptDocuments, 1, n) : n \in 0..MaxPromptDocuments}
        \cup {SubSeq(Reversed, 1, n) : n \in 1..MaxPromptDocuments}

\* The j-th turn of a long conversation (ChatMessage).
Turn(j) ==
    [isUser |-> j % 2 = 1, content |-> Text(PromptTurnLength - 2 + (j % 4))]

ConversationInputs ==
    {[j \in 1..m |-> Turn(j)] : m \in 0..MaxTurns}

(***************************************************************************)
(* Requests                                                                *)
(***************************************************************************)
Clients == {"10.0.0.1"}

Methods == {"POST", "OPTIONS", "PUT"}

\* allowedMethods = ['GET', 'POST', 'OPTIONS'] (withSecurity's default)
AllowedMethods == {"GET", "POST", "OPTIONS"}

\* Queries a client sends, as typed.
Q_empty   == <<>>
Q_blank   == <<" ", " ">>
Q_feed    == <<"\f">>
Q_vtab    == <<VerticalTab>>
Q_tags    == <<"<", ">">>
Q_script  == <<"J","a","v","a","S","c","r","i","p","t",":">>
Q_handler == <<"o","n","c","l","i","c","k","=">>
Q_hi      == <<"<","b",">","h","i"," ">>
Q_sales   == <<"s","a","l","e","s"," ","2","0","2","1">>
Q_compare == <<"r","e","v","e","n","u","e"," ","p","r","o","f","i","t"," ",
               "2","0","2","0"," ","2","0","2","1">>

\* querySchema.properties.query.maxLength
QueryMaxLength == 1000

\* A query one character longer than querySchema allows.
Q_long    == [i \in 1..(QueryMaxLength + 1) |-> "a"]

\* Queries sent with and without vector search, with every maxResults and
\* with every chatHistory; and queries sent with an array as chatHistory and
\* the default maxResults only: the long one, and the one planned into more
\* sub-queries than multiSearch runs.
QueryInputs ==
    {Q_empty, Q_blank, Q_feed, Q_vtab, Q_tags, Q_script, Q_handler, Q_hi, Q_sales}

LargeQueryInputs == {Q_long}

PlannedQueryInputs == {Q_compare, Q_long}

\* Queries as planInformationNeeds receives them (sanitized, hence trimmed,
\* and not empty): those of the requests, and queries that name one year
\* twice, no year, no metric, a metric alone, and several metrics and years.
PlanInputs ==
    {sanitizeInput(q) : q \in {Q_hi, Q_sales, Q_compare}}
    \cup {<<"C","o","m","p","a","r","e"," ","r","e","v","e","n","u","e"," ","i","n"," ",
             "2","0","2","1"," ","a","n","d"," ","2","0","2","0">>,
           <<"r","e","v","e","n","u","e">>,
           <<"S","a","l","e","s"," ","2","0","2","1"," ","v","s"," ","2","0","2","1">>,
           <<"N","e","t"," "," ","i","n","c","o","m","e",","," ","E","B","I","T","D","A">>,
           <<"e","q","u","i","t","y"," ","1","9","9","9"," ","a","s","s","e","t","s"," ",
             "2","0","0","1"," ","2","0","2","2"," ","l","i","a","b","i","l","i","t","i","e","s">>,
           <<"r","e","v","e","n","u","e"," ","2","0","2","1">>,
           <<"n","e","t","\f","i","n","c","o","m","e"," ","2","0","2","1">>,
           <<"n","e","t",VerticalTab,"i","n","c","o","m","e"," ","2","0","2","1">>,
           <<"p","l","a","n"," ","1","2","0","2","1"," ","x","2","0","2","0">>}

\* maxResults as sent (the default is 10).
MaxResultsInputs == {-1, 1, 10}

\* chatHistory as sent: an array of messages, a string that is not empty,
\* the empty string, an array holding an object without content ([{}]), or
\* null.
ChatInputs == {"array", "string", "emptyString", "noContent", "null"}

\* QueryFilters (lib/types.ts); an absent field is an empty list.
NoFilters ==
    [documentTypes |-> <<>>, categories |-> <<>>, departments |-> <<>>,
     tags |-> <<>>, dateRange |-> <<>>]

\* Filters as an API client may send them (QueryFilters, lib/types.ts):
\* one department and a date range.
FinanceFilters ==
    [NoFilters EXCEPT !.departments = <<"finance">>,
                      !.dateRange = <<"2021-01-01", "2021-12-31">>]

\* buildSearchFilters (lines 274-311): one clause per filter given.
buildSearchFilters(filters) ==
    LET Terms(field, values) ==
            IF Len(values) > 0
            THEN <<[kind |-> "terms", field |-> field, values |-> values]>>
            ELSE <<>>
    IN  Terms("type", filters.documentTypes)
        \o Terms("metadata.category.keyword", filters.categories)
        \o Terms("metadata.department.keyword", filters.departments)
        \o Terms("metadata.tags", filters.tags)
        \o (IF Len(filters.dateRange) > 0
            THEN <<[kind |-> "range", field |-> "createdAt",
                    values |-> filters.dateRange]>>
            ELSE <<>>)

\* The filters handleQuery passes to multiSearch (lines 468 and 479); the
\* empty list stands for undefined.
SearchFilters(r) == buildSearchFilters(r.body.filters)

\* The parsed body.  kind: "invalid" is a body request.json() rejects,
\* "noquery" an object without a string query, "ok" a QueryRequest.
Body(kind, query, useVectorSearch, maxResults, chatHistory) ==
    [kind |-> kind, query |-> query, useVectorSearch |-> useVectorSearch,
     maxResults |-> maxResults, chatHistory |-> chatHistory,
     filters |-> NoFilters]

DefaultBody(kind) == Body(kind, <<>>, TRUE, 10, "array")

Bodies ==
    {DefaultBody("invalid"), DefaultBody("noquery")}
    \cup {Body("ok", q, v, m, "array") :
            q \in QueryInputs, v \in BOOLEAN, m \in MaxResultsInputs}
    \cup {Body("ok", q, v, 10, c) :
            q \in QueryInputs, v \in BOOLEAN, c \in ChatInputs}
    \cup {Body("ok", q, v, 10, "array") :
            q \in LargeQueryInputs, v \in BOOLEAN}

Requests ==
    {[method |-> "POST", clientId |-> c, body |-> b] :
        c \in Clients, b \in Bodies}
    \cup {[method |-> m, clientId |-> c, body |-> DefaultBody("ok")] :
            m \in Methods \ {"POST"}, c \in Clients}

\* Requests of the chat (vector search, ten results) whose query is planned
\* into more sub-queries than multiSearch runs, or is longer than the text
\* an embedding request carries.
PlannedRequests ==
    {[method |-> "POST", clientId |-> c, body |-> Body("ok", q, TRUE, 10, "array")] :
        c \in Clients, q \in PlannedQueryInputs}

\* Requests with a query planned into sub-queries, with and without
\* filters and vector search.
FilteredRequests ==
    {[method |-> "POST", clientId |-> c,
      body |-> [Body("ok", q, v, 10, "array") EXCEPT !.filters = f]] :
        c \in Clients, q \in {Q_hi, Q_sales}, v \in BOOLEAN,
        f \in {NoFilters, FinanceFilters}}

NoRequest == [method |-> "none", clientId |-> "", body |-> DefaultBody("none")]

(***************************************************************************)
(* rateLimit (lib/security.ts)                                             *)
(***************************************************************************)
\* POST = withSecurity(handleQuery, {rateLimit: 50, rateLimitWindow: 15 * 60 * 1000})
QueryRateLimit == 50

QueryRateLimitWindow == 900000

NoRecord == [present |-> FALSE, count |-> 0, resetTime |-> 0]

\* The record rateLimit starts a window with, or leaves in place.
RateLimitFresh(store, id, t) ==
    \/ ~store[id].present
    \/ t > store[id].resetTime

\* rateLimit as it would be if it admitted a client whose count has reached
\* the limit.
rateLimitInclusive(store, id, limit, t) ==
    RateLimitFresh(store, id, t) \/ store[id].count <= limit

\* rateLimit's return value.
rateLimit(store, id, limit, t) ==
    RateLimitFresh(store, id, t) \/ store[id].count < limit

\* rateLimit as it would be if a rejected request started the window anew.
RateLimitStoreAfterPenalising(store, id, limit, windowMs, t) ==
    IF RateLimitFresh(store, id, t)
    THEN [store EXCEPT ![id] =
            [present |-> TRUE, count |-> 1, resetTime |-> t + windowMs]]
    ELSE IF store[id].count >= limit
    THEN [store EXCEPT ![id].resetTime = t + windowMs]
    ELSE [store EXCEPT ![id].count = @ + 1]

\* rateLimitStore after the call.
RateLimitStoreAfter(store, id, limit, windowMs, t) ==
    IF RateLimitFresh(store, id, t)
    THEN [store EXCEPT ![id] =
            [present |-> TRUE, count |-> 1, resetTime |-> t + windowMs]]
    ELSE IF store[id].count >= limit THEN store
    ELSE [store EXCEPT ![id].count = @ + 1]

\* Date.now() when the model starts.
StartTime == 1000000

\* The store as earlier traffic of the client may have left it: no record,
\* the record of a window whose quota is used up, or the record of such a
\* window that has ended and that the cleanup has not yet removed.
InitialStores ==
    {[c \in Clients |-> NoRecord],
     [c \in Clients |->
        [present |-> TRUE, count |-> QueryRateLimit,
         resetTime |-> StartTime + QueryRateLimitWindow]],
     [c \in Clients |->
        [present |-> TRUE, count |-> QueryRateLimit,
         resetTime |-> StartTime - 1]]}

(***************************************************************************)
(* withSecurity around every route (lib/middleware.ts), the cleanup of the *)
(* rate-limit store and the CORS headers (lib/security.ts)                 *)
(***************************************************************************)
\* The options each route passes to withSecurity, and the method it is
\* exported for: query (simple-dashboard/route.ts 571-574), dashboard and
\* clear (dashboard/route.ts 118-121 and 139-142), upload (chat/page.tsx
\* 353-356).
Routes ==
    [query     |-> [method |-> "POST", limit |-> QueryRateLimit,
                    window |-> QueryRateLimitWindow,
                    allowedMethods |-> AllowedMethods],
     dashboard |-> [method |-> "GET", limit |-> 30, window |-> 900000,
                    allowedMethods |-> AllowedMethods],
     upload    |-> [method |-> "POST", limit |-> 20, window |-> 900000,
                    allowedMethods |-> AllowedMethods],
     clear     |-> [method |-> "POST", limit |-> 5, window |-> 300000,
                    allowedMethods |-> {"POST", "OPTIONS"}]]

\* process.env.ALLOWED_ORIGINS?.split(',') || ['http://localhost:3000']
AllowedOrigins == {"http://localhost:3000"}

\* getCorsHeaders(origin)['Access-Control-Allow-Origin']; origin "" is a
\* request without Origin header.
getCorsHeaders(origin) ==
    LET isAllowed == origin = "" \/ origin \in AllowedOrigins
    IN  IF isAllowed THEN (IF origin # "" THEN origin ELSE "*") ELSE "null"

\* How withSecurity answers request r: "preflight", "405", "429", or
\* "handler" when it reaches `await handler(request)` (requireAuth is false
\* for every route).
SecurityOutcome(r, store, t) ==
    IF r.method = "OPTIONS" THEN "preflight"
    ELSE IF r.method \notin Routes[r.endpoint].allowedMethods THEN "405"
    ELSE IF ~rateLimit(store, r.clientId, Routes[r.endpoint].limit, t) THEN "429"
    ELSE "handler"

\* The cleanup as it would be if it emptied the store.
CleanupAll(store, t) == [k \in DOMAIN store |-> NoRecord]

\* The setInterval callback of lines 163-171 at time t.
Cleanup(store, t) ==
    [k \in DOMAIN store |->
        IF store[k].present /\ t > store[k].resetTime THEN NoRecord
        ELSE store[k]]

\* Requests to the four routes: each route from the allowed origin, the
\* query route also from another origin, a preflight without Origin header,
\* and a method the clear route refuses.
GateRequests ==
    {[endpoint |-> e, method |-> Routes[e].method, clientId |-> c,
      origin |-> "http://localhost:3000"] : e \in DOMAIN Routes, c \in Clients}
    \cup {[endpoint |-> "query", method |-> "POST", clientId |-> c,
           origin |-> "http://evil.example"] : c \in Clients}
    \cup {[endpoint |-> "query", method |-> "OPTIONS", clientId |-> c,
           origin |-> ""] : c \in Clients}
    \cup {[endpoint |-> "clear", method |-> "GET", clientId |-> c,
           origin |-> "http://localhost:3000"] : c \in Clients}

\* The store as earlier requests of the client to one route may have left
\* it at StartTime, one request short of the route's limit, with the number
\* of requests passed to each handler.
GateHistories ==
    {[store  |-> [c \in Clients |-> NoRecord],
      passed |-> [e \in DOMAIN Routes |-> 0]]}
    \cup {[store  |-> [c \in Clients |->
                        [present |-> TRUE, count |-> Routes[e].limit - 1,
                         resetTime |-> StartTime + Routes[e].window]],
           passed |-> [f \in DOMAIN Routes |->
                         IF f = e THEN Routes[e].limit - 1 ELSE 0]] :
            e \in DOMAIN Routes}

\* The most requests and clock advances of one behaviour.
MaxEvents == 5

(***************************************************************************)
(* State                                                                   *)
(***************************************************************************)
VARIABLES
    pc,             \* "idle", "body" (request.json() is pending), "await" (an
                    \* external call is pending), "done", "thrown" (an
                    \* exception reached the caller)
    req,            \* the request being handled (across the routes: the
                    \* request that arrived or was answered last)
    admitted,       \* withSecurity passed the request to the route handler
    now,            \* Date.now()
    rateLimitStore, \* lib/security.ts rateLimitStore
    esUp,           \* the document index answers requests
    queries,        \* handleQuery: [sanitizedQuery, ...plan.searchQueries]
    qi,             \* multiSearch: position of the loop in queries
    merged,         \* multiSearch: merged
    seenIds,        \* multiSearch: seenIds
    searchResults,  \* handleQuery: searchResults
    answer,         \* handleQuery: answer
    call,           \* the pending external call
    silent,         \* the pending call will never be answered
    subLog,         \* per finished sub-query: "ok" (merged) or "failed" (skipped)
    lastSub,        \* the search calls of the sub-query that finished last
    returned,       \* the hits returned to sub-queries that did not throw
    calls,          \* external calls made for the request, per kind
    lmOutcome,      \* how the language-model call ended
    embedFailed,    \* generateEmbedding took its catch for some sub-query
    thrown,         \* the exception thrown last in the handler ("none": none)
    env,            \* process.env: which of GEMINI_API_KEY, GEMINI_API_URL are set
    response,       \* the response returned to the caller
    documents,      \* generateAIResponse / extractMetricYearFacts: the documents
    conversation,   \* generateAIResponse: chatHistory
    metricFacts,    \* extractMetricYearFacts: facts
    promptContext,  \* generateAIResponse: finalPrompt
    userQuery,      \* planInformationNeeds: userQuery
    queryPlan,      \* planInformationNeeds: the plan returned
    stage,          \* what has been computed from documents and conversation
    corsOrigin,     \* withSecurity: Access-Control-Allow-Origin of the response
    passed,         \* per endpoint: requests passed to its handler in the
                    \* client's current rate-limit window
    made,           \* per endpoint: requests that reached rateLimit in the
                    \* client's current window, rejected ones included
    rejections,     \* requests answered with 429 so far
    plainStore,     \* rateLimitStore as it would be had no cleanup ever run
    inHandler,      \* the requests withSecurity has passed to their route
                    \* handler and is awaiting (line 61), as a bag
    overlapped,     \* a request was answered 429 while another request was
                    \* in its handler
    afterCleanup,   \* the request that arrived last found the store with a
                    \* record removed by the cleanup
    events,         \* requests and clock advances so far
    messages,       \* ChatInterface: messages
    inputMessage,   \* ChatInterface: inputMessage
    chatFilters,    \* ChatInterface: filters, as a function on the keys the
                    \* object has (<<>>: the value undefined)
    isLoading,      \* ChatInterface: isLoading
    fetching,       \* ChatInterface: the query of the fetch awaited (<<>>: none)
    resetSinceSend  \* startNewChat has run since the last message was sent

\* The request handler's variables.
handlerVars ==
    <<pc, req, admitted, now, rateLimitStore, esUp, queries, qi, merged, seenIds,
      searchResults, answer, call, silent, subLog, lastSub, returned,
      calls, lmOutcome, embedFailed, thrown, env, response>>

\* The variables of the grounding context built from a result list.
contextVars ==
    <<documents, conversation, metricFacts, promptContext, userQuery,
      queryPlan, stage>>

\* The variables of withSecurity seen from all endpoints.
gateVars ==
    <<corsOrigin, passed, made, rejections, plainStore, inHandler, overlapped,
      afterCleanup, events>>

\* The state of the chat interface.
chatVars ==
    <<messages, inputMessage, chatFilters, isLoading, fetching, resetSinceSend>>

vars == <<handlerVars, contextVars, gateVars, chatVars>>

NoCall ==
    [kind |-> "none", query |-> <<>>, embedding |-> "none", filters |-> <<>>,
     size |-> 0]

\* The characters of the text generateEmbedding sends: text.substring(0, 1000)
EmbeddingTextLength == 1000

\* fetch(GEMINI_API_URL) of generateEmbedding
EmbedCall(q) ==
    [kind |-> "embed", query |-> SliceFront(q, EmbeddingTextLength),
     embedding |-> "none", filters |-> <<>>, size |-> 0]

\* process.env with both variables of the language-model API set.
Configured == [GEMINI_API_KEY |-> TRUE, GEMINI_API_URL |-> TRUE]

\* The environments the route runs in: configured, or without the variables
\* of the language-model API.
Environments ==
    {Configured, [GEMINI_API_KEY |-> FALSE, GEMINI_API_URL |-> FALSE]}

\* generateEmbedding and callGeminiAPI go on to their fetch (lines 58-60 and
\* 103-105): `!GEMINI_API_KEY || !GEMINI_API_URL` is false.
GeminiConfigured == env.GEMINI_API_KEY /\ env.GEMINI_API_URL

\* hybridSearchDocuments(q, embedding, filters, topKPerQuery)
HybridCall(q, embedding, filters, size) ==
    [kind |-> "hybrid", query |-> q, embedding |-> embedding,
     filters |-> filters, size |-> size]

\* textSearchDocuments(q, filters, topKPerQuery)
TextCall(q, filters, size) ==
    [kind |-> "text", query |-> q, embedding |-> "none", filters |-> filters,
     size |-> size]

\* fetch(GEMINI_API_URL) of callGeminiAPI
GenerateCall ==
    [kind |-> "generate", query |-> <<>>, embedding |-> "none",
     filters |-> <<>>, size |-> 0]

NoCalls == [embed |-> 0, hybrid |-> 0, text |-> 0, generate |-> 0]

\* How the search calls of a sub-query ended.  hybrid: "none" (not called),
\* "threw", "empty", "hits"; text: "none", "threw", "returned".
NoSub == [hybrid |-> "none", text |-> "none"]

\* The handler's part of the state, as one record.
Handler ==
    [pc |-> pc, queries |-> queries, qi |-> qi, merged |-> merged,
     seenIds |-> seenIds, searchResults |-> searchResults, answer |-> answer,
     call |-> call, subLog |-> subLog, lastSub |-> lastSub,
     returned |-> returned, calls |-> calls,
     lmOutcome |-> lmOutcome, embedFailed |-> embedFailed, thrown |-> thrown,
     response |-> response]

IdleHandler ==
    [pc |-> "idle", queries |-> <<>>, qi |-> 0, merged |-> <<>>,
     seenIds |-> {}, searchResults |-> <<>>, answer |-> "",
     call |-> NoCall, subLog |-> <<>>, lastSub |-> NoSub, returned |-> {},
     calls |-> NoCalls, lmOutcome |-> "none", embedFailed |-> FALSE,
     thrown |-> "none",
     response |-> NoResponse]

Become(h) ==
    /\ pc' = h.pc
    /\ queries' = h.queries
    /\ qi' = h.qi
    /\ merged' = h.merged
    /\ seenIds' = h.seenIds
    /\ searchResults' = h.searchResults
    /\ answer' = h.answer
    /\ call' = h.call
    /\ subLog' = h.subLog
    /\ lastSub' = h.lastSub
    /\ returned' = h.returned
    /\ calls' = h.calls
    /\ lmOutcome' = h.lmOutcome
    /\ embedFailed' = h.embedFailed
    /\ thrown' = h.thrown
    /\ response' = h.response

(***************************************************************************)
(* The handler, from one await to the next                                 *)
(***************************************************************************)
\* An external call is made and awaited.
IssueCall(h, c) ==
    [h EXCEPT !.pc = "await", !.call = c, !.calls[c.kind] = @ + 1]

\* The response is returned to the caller.
Respond(h, r) ==
    [h EXCEPT !.pc = "done", !.call = NoCall, !.response = r]

\* An exception leaves the block being run.
Throw(h, error) ==
    [h EXCEPT !.pc = "thrown", !.call = NoCall, !.thrown = error]

\* The exceptions of the query path: request.json() on a body that is no
\* JSON, sanitizeInput(undefined), chatHistory.length of null,
\* chatHistory.slice(-6).map of a string that is not empty, and
\* msg.content.substring of a message without content.
BodySyntaxError == "SyntaxError: Unexpected token in JSON at position 0"

QueryTypeError == "TypeError: Cannot read properties of undefined (reading 'replace')"

HistoryNullError == "TypeError: Cannot read properties of null (reading 'length')"

HistoryMapError == "TypeError: chatHistory.slice(...).map is not a function"

HistoryContentError == "TypeError: Cannot read properties of undefined (reading 'substring')"

\* Reply as it would be if a failed answer discarded the search results.
ReplyDroppingSources(h) ==
    IF h.answer = ModelText
    THEN Respond(h, createSuccessResponse(h.answer,
                                          convertToDocumentSources(h.searchResults),
                                          Len(h.searchResults)))
    ELSE Respond(h, createSuccessResponse(h.answer, <<>>, 0))

\* handleQuery, lines 495-505: the success response.
Reply(h) ==
    Respond(h, createSuccessResponse(h.answer,
                                     convertToDocumentSources(h.searchResults),
                                     Len(h.searchResults)))

\* How the language-model request can end.
ModelOutcomes == {"text", "nocandidate", "non2xx", "network", "badjson"}

\* callGeminiAPI throws: its configuration is missing, fetch rejects,
\* !response.ok, response.json() rejects.
ModelThrows == {"noconfig", "non2xx", "network", "badjson"}

\* AnswerOf as it would be without the `|| '...'` default of line 131.
AnswerOfNoDefault(outcome) ==
    IF outcome \in ModelThrows THEN ApologyProcessing
    ELSE IF outcome = "nocandidate" THEN ""
    ELSE ModelText

\* callGeminiAPI's return value (line 131), then generateAIResponse's
\* (lines 381-386).
AnswerOf(outcome) ==
    IF outcome \in ModelThrows THEN ApologyProcessing
    ELSE IF outcome = "nocandidate" THEN ApologyUnable
    ELSE ModelText

\* handleQuery from the return of multiSearch (line 476) on:
\* generateAIResponse assembles the prompt (lines 334-340: the empty string
\* has length 0 and is not mapped, chatHistory.slice(-6).map throws for
\* another string, msg.content.substring for a message without content)
\* and calls the language model; without its configuration callGeminiAPI
\* throws before the fetch (lines 103-105) and the catch of lines 384-386
\* gives the answer.
generateAIResponse(h, r) ==
    IF r.body.chatHistory = "string" THEN Throw(h, HistoryMapError)
    ELSE IF r.body.chatHistory = "noContent" THEN Throw(h, HistoryContentError)
    ELSE IF ~GeminiConfigured
    THEN Reply([h EXCEPT !.answer = AnswerOf("noconfig"),
                         !.lmOutcome = "noconfig"])
    ELSE IssueCall(h, GenerateCall)

\* CatchSearchOrAI as it would be without the inner try/catch.
CatchSearchOrAIAbsent(h) == h

\* handleQuery, lines 490-505: the catch around search and answer
\* generation, then the success response.
CatchSearchOrAI(h) ==
    IF h.pc = "thrown"
    THEN Reply([h EXCEPT !.answer = ApologySearching])
    ELSE h

\* CatchUnhandled as it would be if it answered with the exception caught.
CatchUnhandledLeaking(h) ==
    IF h.pc = "thrown"
    THEN Respond(h, [createErrorResponse(h.thrown, 500)
                        EXCEPT !.details = h.thrown])
    ELSE h

\* handleQuery, lines 507-510: the catch around the whole handler.
CatchUnhandled(h) ==
    IF h.pc = "thrown"
    THEN Respond(h, createErrorResponse(
                        "Internal server error during query processing", 500))
    ELSE h

\* withSecurity, lines 71-74: the catch around `await handler(request)`.
CatchApiError(h) ==
    IF h.pc = "thrown"
    THEN Respond(h, createErrorResponse("Internal server error", 500))
    ELSE h

\* A continuation of the handler runs inside the three try blocks.
Resume(h) == CatchApiError(CatchUnhandled(CatchSearchOrAI(h)))

\* multiSearch, line 223, and the return into handleQuery.
ReturnMerged(h, r) ==
    generateAIResponse(
        [h EXCEPT !.searchResults = SliceFront(h.merged, r.body.maxResults)], r)

\* multiSearch, lines 200-209, up to the first call of sub-query h.qi: the
\* embedding request; the hybrid search with the zero vector when
\* generateEmbedding throws before its fetch (lines 58-60, 91-94); or the
\* text search.
StartSubQuery(h, r) ==
    IF ~r.body.useVectorSearch
    THEN IssueCall(h, TextCall(h.queries[h.qi], SearchFilters(r),
                               topKPerQuery(r.body.maxResults)))
    ELSE IF GeminiConfigured
    THEN IssueCall(h, EmbedCall(h.queries[h.qi]))
    ELSE IssueCall([h EXCEPT !.embedFailed = TRUE],
                   HybridCall(h.queries[h.qi], "zero", SearchFilters(r),
                              topKPerQuery(r.body.maxResults)))

\* RunSubQuery as it would be over searchQueries instead of its slice(0, 6).
RunSubQueryUncapped(h, r, i) ==
    IF i > Len(h.queries)
    THEN ReturnMerged(h, r)
    ELSE StartSubQuery([h EXCEPT !.qi = i], r)

\* multiSearch, the loop of line 198 at position i: the first call of the
\* sub-query, or the end of the loop.
RunSubQuery(h, r, i) ==
    IF i > Len(h.queries) \/ i > MaxSubQueries
    THEN ReturnMerged(h, r)
    ELSE StartSubQuery([h EXCEPT !.qi = i], r)

\* SkipSubQuery as it would be with `break` for `continue`.
SkipSubQueryAborting(h, r, entry) ==
    ReturnMerged([h EXCEPT !.subLog = Append(@, "failed"), !.lastSub = entry], r)

\* multiSearch, line 211: a search call threw; the sub-query is skipped.
SkipSubQuery(h, r, entry) ==
    RunSubQuery([h EXCEPT !.subLog = Append(@, "failed"), !.lastSub = entry],
                r, h.qi + 1)

\* multiSearch, lines 215-221: the sub-query's results are merged.
MergeSubQuery(h, r, entry, results) ==
    LET m == MergeResults(h.merged, results)
    IN  RunSubQuery([h EXCEPT !.merged = m,
                              !.seenIds = {HitKey(m[k]) : k \in 1..Len(m)},
                              !.subLog = Append(@, "ok"),
                              !.lastSub = entry,
                              !.returned = @ \cup Range(results)],
                    r, h.qi + 1)

\* AfterEmbedding as it would be if generateEmbedding had no catch: the
\* error lands in the catch of multiSearch.
AfterEmbeddingThrowing(h, r, ok) ==
    IF ok
    THEN IssueCall(h, HybridCall(h.queries[h.qi], "vector", SearchFilters(r),
                                 topKPerQuery(r.body.maxResults)))
    ELSE SkipSubQuery([h EXCEPT !.embedFailed = TRUE], r, NoSub)

\* generateEmbedding (lines 53-95) has returned to multiSearch (line 202):
\* a vector, or the zero vector of its catch; the hybrid search is called
\* with it (line 203).
AfterEmbedding(h, r, ok) ==
    IssueCall([h EXCEPT !.embedFailed = @ \/ ~ok],
              HybridCall(h.queries[h.qi], IF ok THEN "vector" ELSE "zero",
                         SearchFilters(r),
                         topKPerQuery(r.body.maxResults)))

\* AfterHybrid as it would be without the fallback of lines 204-207.
AfterHybridNoFallback(h, r, out) ==
    IF out.threw
    THEN SkipSubQuery(h, r, [hybrid |-> "threw", text |-> "none"])
    ELSE MergeSubQuery(h, r, [hybrid |-> "hits", text |-> "none"], out.hits)

\* AfterHybrid as it would be if a failed hybrid search were tried again.
AfterHybridRetrying(h, r, out) ==
    IF out.threw
    THEN IssueCall(h, HybridCall(h.call.query, h.call.embedding,
                                 SearchFilters(r), h.call.size))
    ELSE IF Len(out.hits) = 0
         THEN IssueCall(h, TextCall(h.call.query, SearchFilters(r), h.call.size))
         ELSE MergeSubQuery(h, r, [hybrid |-> "hits", text |-> "none"], out.hits)

\* multiSearch, lines 203-207: hybridSearchDocuments has returned or thrown.
AfterHybrid(h, r, out) ==
    IF out.threw
    THEN SkipSubQuery(h, r, [hybrid |-> "threw", text |-> "none"])
    ELSE IF Len(out.hits) = 0
         THEN IssueCall(h, TextCall(h.call.query, SearchFilters(r), h.call.size))
         ELSE MergeSubQuery(h, r, [hybrid |-> "hits", text |-> "none"], out.hits)

\* multiSearch, lines 206 and 209: textSearchDocuments has returned or thrown.
AfterText(h, r, out) ==
    LET hybrid == IF r.body.useVectorSearch THEN "empty" ELSE "none"
    IN  IF out.threw
        THEN SkipSubQuery(h, r, [hybrid |-> hybrid, text |-> "threw"])
        ELSE MergeSubQuery(h, r, [hybrid |-> hybrid, text |-> "returned"],
                           out.hits)

\* handleQuery as it would be without the check of lines 456-458.
handleQueryUnchecked(h, r) ==
    CatchUnhandled(
        IF r.body.kind = "invalid" THEN Throw(h, BodySyntaxError)
        ELSE IF r.body.kind # "ok" THEN Throw(h, QueryTypeError)
        ELSE LET sanitizedQuery == sanitizeInput(r.body.query)
             IN  IF r.body.chatHistory = "null" THEN Throw(h, HistoryNullError)
                 ELSE CatchSearchOrAI(RunSubQuery(
                        [h EXCEPT !.queries =
                            <<sanitizedQuery>>
                            \o planInformationNeeds(sanitizedQuery).searchQueries],
                        r, 1)))

\* handleQuery from the end of `await request.json()` (line 451) up to the
\* first external call (line 482).  request.json() rejects and
\* sanitizeInput(query) throws for a body that is no QueryRequest,
\* chatHistory.length (line 460) for a null chatHistory.
handleQuery(h, r) ==
    CatchUnhandled(
        IF r.body.kind = "invalid" THEN Throw(h, BodySyntaxError)
        ELSE IF r.body.kind # "ok" THEN Throw(h, QueryTypeError)
        ELSE LET sanitizedQuery == sanitizeInput(r.body.query)
             IN  IF Len(sanitizedQuery) = 0 \/ Len(trim(sanitizedQuery)) = 0
                 THEN Respond(h, createErrorResponse("Query is required", 400))
                 ELSE IF r.body.chatHistory = "null" THEN Throw(h, HistoryNullError)
                 ELSE CatchSearchOrAI(RunSubQuery(
                        [h EXCEPT !.queries =
                            <<sanitizedQuery>>
                            \o planInformationNeeds(sanitizedQuery).searchQueries],
                        r, 1)))

\* withSecurity reaches `await handler(request)` (line 61).
PassedToHandler(r, store, t) ==
    /\ r.method # "OPTIONS"
    /\ r.method \in AllowedMethods
    /\ rateLimit(store, r.clientId, QueryRateLimit, t)

\* withSecurity (lib/middleware.ts, lines 21-61) around handleQuery, up to
\* its first await: a response, or `await handler(request)`, where
\* handleQuery runs as far as `await request.json()` (line 451).
withSecurity(h, r, store, t) ==
    IF r.method = "OPTIONS" THEN Respond(h, PreflightResponse)
    ELSE IF r.method \notin AllowedMethods
    THEN Respond(h, createErrorResponse("Method not allowed", 405))
    ELSE IF ~rateLimit(store, r.clientId, QueryRateLimit, t)
    THEN Respond(h, createErrorResponse(
                        "Rate limit exceeded. Please try again later.", 429))
    ELSE [h EXCEPT !.pc = "body"]

\* checkElasticsearchHealth (lib/elasticsearch): the count request succeeds.
checkElasticsearchHealth == esUp

\* What a search call can answer.
SearchOutcomes(size) ==
    {[threw |-> TRUE, hits |-> <<>>]}
    \cup (IF esUp
          THEN {[threw |-> FALSE, hits |-> l] : l \in ResultLists(size)}
          ELSE {})

\* The handler's variables other than the clock, the store, the request and
\* the response.
routeVars ==
    <<pc, esUp, queries, qi, merged, seenIds, searchResults, answer, call,
      silent, subLog, lastSub, returned, calls, lmOutcome, embedFailed, thrown,
      env>>

(***************************************************************************)
(* Actions                                                                 *)
(***************************************************************************)
\* A request reaches the POST export of the query route: withSecurity runs
\* up to its response or to the wait for the body.
POST(r) ==
    /\ pc = "idle"
    /\ req' = r
    /\ rateLimitStore' =
          IF r.method = "OPTIONS" \/ r.method \notin AllowedMethods
          THEN rateLimitStore
          ELSE RateLimitStoreAfter(rateLimitStore, r.clientId, QueryRateLimit,
                                   QueryRateLimitWindow, now)
    /\ admitted' = PassedToHandler(r, rateLimitStore, now)
    /\ Become(withSecurity(IdleHandler, r, rateLimitStore, now))
    /\ UNCHANGED <<now, esUp, silent, env>>
    /\ UNCHANGED <<contextVars, gateVars, chatVars>>

\* request.json() settles (line 451) and handleQuery goes on, inside its own
\* try and that of withSecurity (lines 59-74), to its response or its first
\* external call.
BodyArrives ==
    /\ pc = "body"
    /\ Become(CatchApiError(handleQuery(Handler, req)))
    /\ UNCHANGED <<req, admitted, now, rateLimitStore, esUp, silent, env>>
    /\ UNCHANGED <<contextVars, gateVars, chatVars>>

\* While the request is handled Date.now() passes the end of the window of
\* the client's record.  (The time before the request arrives is part of the
\* initial state.)
WindowPasses ==
    /\ pc # "idle"
    /\ \E c \in Clients :
          /\ rateLimitStore[c].present
          /\ now <= rateLimitStore[c].resetTime
          /\ now' = rateLimitStore[c].resetTime + 1
    /\ UNCHANGED <<req, admitted, rateLimitStore, response, routeVars>>
    /\ UNCHANGED <<contextVars, gateVars, chatVars>>

\* The setInterval callback of lib/security.ts (lines 163-171) runs and
\* finds a record to delete.
CleanupRuns ==
    /\ Cleanup(rateLimitStore, now) # rateLimitStore
    /\ rateLimitStore' = Cleanup(rateLimitStore, now)
    /\ UNCHANGED <<req, admitted, now, response, routeVars>>
    /\ UNCHANGED <<contextVars, gateVars, chatVars>>

\* The embedding request ends: generateEmbedding returns the vector, or the
\* zero vector from its catch, and the hybrid search is called.
EmbeddingResponds(ok) ==
    /\ pc = "await" /\ call.kind = "embed" /\ ~silent
    /\ Become(Resume(AfterEmbedding(Handler, req, ok)))
    /\ UNCHANGED <<req, admitted, now, rateLimitStore, esUp, silent, env>>
    /\ UNCHANGED <<contextVars, gateVars, chatVars>>

HybridResponds(out) ==
    /\ pc = "await" /\ call.kind = "hybrid" /\ ~silent
    /\ Become(Resume(AfterHybrid(Handler, req, out)))
    /\ UNCHANGED <<req, admitted, now, rateLimitStore, esUp, silent, env>>
    /\ UNCHANGED <<contextVars, gateVars, chatVars>>

TextResponds(out) ==
    /\ pc = "await" /\ call.kind = "text" /\ ~silent
    /\ Become(Resume(AfterText(Handler, req, out)))
    /\ UNCHANGED <<req, admitted, now, rateLimitStore, esUp, silent, env>>
    /\ UNCHANGED <<contextVars, gateVars, chatVars>>

ModelResponds(outcome) ==
    /\ pc = "await" /\ call.kind = "generate" /\ ~silent
    /\ Become(Resume(Reply([Handler EXCEPT !.answer = AnswerOf(outcome),
                                           !.lmOutcome = outcome])))
    /\ UNCHANGED <<req, admitted, now, rateLimitStore, esUp, silent, env>>
    /\ UNCHANGED <<contextVars, gateVars, chatVars>>

\* The collaborator of the pending call never answers: the fetch promise
\* stays pending.
CollaboratorNeverResponds ==
    /\ pc = "await" /\ ~silent
    /\ silent' = TRUE
    /\ UNCHANGED <<pc, req, admitted, now, rateLimitStore, esUp, queries, qi, merged,
                   seenIds, searchResults, answer, call, subLog, lastSub,
                   returned, calls, lmOutcome, embedFailed, thrown, env,
                   response>>
    /\ UNCHANGED <<contextVars, gateVars, chatVars>>

\* No plan made.
NoPlan == [metrics |-> <<>>, years |-> <<>>, entities |-> <<>>,
           searchQueries |-> <<>>]

\* No request is being handled.
RouteIdle ==
    /\ pc = "idle"
    /\ esUp = TRUE
    /\ silent = FALSE
    /\ queries = <<>>
    /\ qi = 0
    /\ merged = <<>>
    /\ seenIds = {}
    /\ searchResults = <<>>
    /\ answer = ""
    /\ call = NoCall
    /\ subLog = <<>>
    /\ lastSub = NoSub
    /\ returned = {}
    /\ calls = NoCalls
    /\ lmOutcome = "none"
    /\ embedFailed = FALSE
    /\ thrown = "none"
    /\ env = Configured

\* No request has passed withSecurity.
GateIdle ==
    /\ corsOrigin = "absent"
    /\ passed = [e \in DOMAIN Routes |-> 0]
    /\ made = [e \in DOMAIN Routes |-> 0]
    /\ rejections = 0
    /\ plainStore = [c \in Clients |-> NoRecord]
    /\ inHandler = EmptyBag
    /\ overlapped = FALSE
    /\ afterCleanup = FALSE
    /\ events = 0

\* {}: an object without keys.
NoKeys == [k \in {} |-> <<>>]

\* The chat interface is not mounted.
ChatIdle ==
    /\ messages = <<>>
    /\ inputMessage = <<>>
    /\ chatFilters = NoKeys
    /\ isLoading = FALSE
    /\ fetching = <<>>
    /\ resetSinceSend = FALSE

\* Nothing has been computed.
ContextEmpty ==
    /\ metricFacts = <<>>
    /\ promptContext = NoPrompt
    /\ queryPlan = NoPlan
    /\ stage = {}

Init ==
    /\ pc = "idle"
    /\ req = NoRequest
    /\ admitted = FALSE
    /\ now = StartTime
    /\ rateLimitStore \in InitialStores
    /\ esUp \in BOOLEAN
    /\ silent = FALSE
    /\ documents = <<>>
    /\ conversation = <<>>
    /\ userQuery = <<>>
    /\ ContextEmpty
    /\ GateIdle
    /\ ChatIdle
    /\ queries = <<>>
    /\ qi = 0
    /\ merged = <<>>
    /\ seenIds = {}
    /\ searchResults = <<>>
    /\ answer = ""
    /\ call = NoCall
    /\ subLog = <<>>
    /\ lastSub = NoSub
    /\ returned = {}
    /\ calls = NoCalls
    /\ lmOutcome = "none"
    /\ embedFailed = FALSE
    /\ thrown = "none"
    /\ env \in Environments
    /\ response = NoResponse

Next ==
    \/ \E r \in Requests : POST(r)
    \/ BodyArrives
    \/ WindowPasses
    \/ CleanupRuns
    \/ \E ok \in BOOLEAN : EmbeddingResponds(ok)
    \/ \E out \in SearchOutcomes(call.size) : HybridResponds(out)
    \/ \E out \in SearchOutcomes(call.size) : TextResponds(out)
    \/ \E outcome \in ModelOutcomes : ModelResponds(outcome)
    \/ CollaboratorNeverResponds

Spec == Init /\ [][Next]_vars

\* The query route under requests that carry filters.
FilteredNext ==
    \/ \E r \in FilteredRequests : POST(r)
    \/ BodyArrives
    \/ WindowPasses
    \/ CleanupRuns
    \/ \E ok \in BOOLEAN : EmbeddingResponds(ok)
    \/ \E out \in SearchOutcomes(call.size) : HybridResponds(out)
    \/ \E out \in SearchOutcomes(call.size) : TextResponds(out)
    \/ \E outcome \in ModelOutcomes : ModelResponds(outcome)
    \/ CollaboratorNeverResponds

FilteredSpec == Init /\ [][FilteredNext]_vars

\* The query route under the requests with the most sub-queries, for a
\* client without record, in the configured environment.
PlannedInit ==
    /\ Init
    /\ rateLimitStore = [c \in Clients |-> NoRecord]
    /\ env = Configured

PlannedNext ==
    \/ \E r \in PlannedRequests : POST(r)
    \/ BodyArrives
    \/ WindowPasses
    \/ CleanupRuns
    \/ \E ok \in BOOLEAN : EmbeddingResponds(ok)
    \/ \E out \in SearchOutcomes(call.size) : HybridResponds(out)
    \/ \E out \in SearchOutcomes(call.size) : TextResponds(out)
    \/ \E outcome \in ModelOutcomes : ModelResponds(outcome)
    \/ CollaboratorNeverResponds

PlannedSpec == PlannedInit /\ [][PlannedNext]_vars

(***************************************************************************)
(* The grounding context as a function of a result list and a              *)
(* conversation: extractMetricYearFacts, the financial block and the       *)
(* contexts of the prompt, applied to documents and conversations of       *)
(* their own                                                               *)
(***************************************************************************)
ContextInit ==
    /\ pc = "idle"
    /\ req = NoRequest
    /\ admitted = FALSE
    /\ now = StartTime
    /\ rateLimitStore = [c \in Clients |-> NoRecord]
    /\ esUp = TRUE
    /\ silent = FALSE
    /\ queries = <<>>
    /\ qi = 0
    /\ merged = <<>>
    /\ seenIds = {}
    /\ searchResults = <<>>
    /\ answer = ""
    /\ call = NoCall
    /\ subLog = <<>>
    /\ lastSub = NoSub
    /\ returned = {}
    /\ calls = NoCalls
    /\ lmOutcome = "none"
    /\ embedFailed = FALSE
    /\ thrown = "none"
    /\ env = Configured
    /\ response = NoResponse
    /\ \/ /\ documents \in ExtractionInputs
          /\ conversation = <<>>
          /\ userQuery = Q_sales
       \/ /\ documents \in PromptInputs
          /\ conversation \in ConversationInputs
          /\ userQuery = Q_sales
       \/ /\ documents = <<>>
          /\ conversation = <<>>
          /\ userQuery \in PlanInputs
    /\ ContextEmpty
    /\ GateIdle
    /\ ChatIdle

\* extractMetricYearFacts(documents)
ExtractFacts ==
    /\ "facts" \notin stage
    /\ metricFacts' = extractMetricYearFacts(documents)
    /\ stage' = stage \cup {"facts"}
    /\ UNCHANGED <<gateVars, chatVars>>
    /\ UNCHANGED <<handlerVars, documents, conversation, promptContext,
                   userQuery, queryPlan>>

\* generateAIResponse(userQuery, documents, conversation), lines 321-379:
\* finalPrompt, the text handed to the language model.  It is the financial
\* block (present when financials has a key), then the fixed opening, the
\* search context, the conversation context, the sanitized question and
\* the fixed instructions; the record holds what varies, in that order.
BuildPrompt ==
    /\ "prompt" \notin stage
    /\ promptContext' =
          [financials |-> Financials(documents),
           count      |-> SearchContext(documents).count,
           entries    |-> SearchContext(documents).entries,
           turns      |-> ConversationContext(conversation),
           question   |-> sanitizeInput(userQuery)]
    /\ stage' = stage \cup {"prompt"}
    /\ UNCHANGED <<gateVars, chatVars>>
    /\ UNCHANGED <<handlerVars, documents, conversation, metricFacts,
                   userQuery, queryPlan>>

\* planInformationNeeds(userQuery), as handleQuery calls it (line 471).
PlanNeeds ==
    /\ "plan" \notin stage
    /\ queryPlan' = planInformationNeeds(userQuery)
    /\ stage' = stage \cup {"plan"}
    /\ UNCHANGED <<gateVars, chatVars>>
    /\ UNCHANGED <<handlerVars, documents, conversation, metricFacts,
                   promptContext, userQuery>>

\* The three functions are applied to their inputs in any order: none reads
\* what another wrote.
ContextNext ==
    \/ ExtractFacts
    \/ BuildPrompt
    \/ PlanNeeds

ContextSpec == ContextInit /\ [][ContextNext]_vars

(***************************************************************************)
(* withSecurity for the requests of one client to the four routes, with    *)
(* the clock advancing and the cleanup of the store running in between     *)
(***************************************************************************)
\* What a route handler returns is left open: a response of its own.
HandlerResponse == [NoResponse EXCEPT !.body = "handler"]

\* The most requests in their handler at one time.
MaxInHandler == 2

\* withSecurity (lines 21-61) for request r at the route r.endpoint, up to
\* the response it returns itself or to `await handler(request)`.
Request(r) ==
    LET outcome == SecurityOutcome(r, rateLimitStore, now)
        route   == Routes[r.endpoint]
        limited == outcome \in {"429", "handler"}
        fresh   == RateLimitFresh(rateLimitStore, r.clientId, now)
    IN  /\ events < MaxEvents
        /\ outcome = "handler" => BagCardinality(inHandler) < MaxInHandler
        /\ req' = r
        /\ rateLimitStore' =
              IF limited
              THEN RateLimitStoreAfter(rateLimitStore, r.clientId, route.limit,
                                       route.window, now)
              ELSE rateLimitStore
        /\ admitted' = (outcome = "handler")
        /\ inHandler' = IF outcome = "handler"
                        THEN inHandler (+) SetToBag({r})
                        ELSE inHandler
        /\ response' =
              CASE outcome = "preflight" -> PreflightResponse
                [] outcome = "405" -> createErrorResponse("Method not allowed", 405)
                [] outcome = "429" ->
                     createErrorResponse(
                         "Rate limit exceeded. Please try again later.", 429)
                [] OTHER -> NoResponse
        /\ corsOrigin' = IF outcome = "preflight"
                         THEN getCorsHeaders(r.origin)
                         ELSE "absent"
        /\ passed' =
              IF outcome # "handler" THEN passed
              ELSE IF fresh
              THEN [e \in DOMAIN Routes |-> IF e = r.endpoint THEN 1 ELSE 0]
              ELSE [passed EXCEPT ![r.endpoint] = @ + 1]
        /\ made' =
              IF ~limited THEN made
              ELSE IF fresh
              THEN [e \in DOMAIN Routes |-> IF e = r.endpoint THEN 1 ELSE 0]
              ELSE [made EXCEPT ![r.endpoint] = @ + 1]
        /\ rejections' = IF outcome = "429" THEN rejections + 1 ELSE rejections
        /\ overlapped' = (overlapped \/ (outcome = "429" /\ inHandler # EmptyBag))
        /\ plainStore' =
              IF limited
              THEN RateLimitStoreAfter(plainStore, r.clientId, route.limit,
                                       route.window, now)
              ELSE plainStore
        /\ afterCleanup' = (limited /\ rateLimitStore # plainStore)
        /\ events' = events + 1
        /\ UNCHANGED <<now, routeVars, contextVars, chatVars>>

\* The handler of request r returns its response; withSecurity sets the CORS
\* and security headers on it and returns it (lines 61-70).
HandlerReturns(r) ==
    /\ BagIn(r, inHandler)
    /\ inHandler' = inHandler (-) SetToBag({r})
    /\ req' = r
    /\ admitted' = TRUE
    /\ response' = HandlerResponse
    /\ corsOrigin' = getCorsHeaders(r.origin)
    /\ UNCHANGED <<now, rateLimitStore, routeVars, contextVars, chatVars,
                   passed, made, rejections, plainStore, overlapped,
                   afterCleanup, events>>

\* The handler of request r throws; withSecurity answers from its catch
\* (lines 71-74), without CORS headers.
HandlerThrows(r) ==
    /\ BagIn(r, inHandler)
    /\ inHandler' = inHandler (-) SetToBag({r})
    /\ req' = r
    /\ admitted' = TRUE
    /\ response' = createErrorResponse("Internal server error", 500)
    /\ corsOrigin' = "absent"
    /\ UNCHANGED <<now, rateLimitStore, routeVars, contextVars, chatVars,
                   passed, made, rejections, plainStore, overlapped,
                   afterCleanup, events>>

\* Date.now() advances by d milliseconds.
Tick(d) ==
    /\ events < MaxEvents
    /\ now' = now + d
    /\ events' = events + 1
    /\ UNCHANGED <<req, admitted, rateLimitStore, response, routeVars,
                   contextVars, chatVars, corsOrigin, passed, made, rejections,
                   plainStore, inHandler, overlapped, afterCleanup>>

GateInit ==
    /\ RouteIdle
    /\ req = NoRequest
    /\ admitted = FALSE
    /\ now = StartTime
    /\ response = NoResponse
    /\ \E past \in GateHistories :
          /\ rateLimitStore = past.store
          /\ plainStore = past.store
          /\ passed = past.passed
          /\ made = past.passed
    /\ corsOrigin = "absent"
    /\ rejections = 0
    /\ inHandler = EmptyBag
    /\ overlapped = FALSE
    /\ afterCleanup = FALSE
    /\ events = 0
    /\ documents = <<>>
    /\ conversation = <<>>
    /\ userQuery = <<>>
    /\ ContextEmpty
    /\ ChatIdle

\* Requests arrive, handlers return or throw in any order, the clock
\* advances by a millisecond or by the longest window of a route, and the
\* cleanup runs, whether or not requests are in their handlers.
GateNext ==
    \/ \E r \in GateRequests : Request(r)
    \/ \E r \in GateRequests : HandlerReturns(r)
    \/ \E r \in GateRequests : HandlerThrows(r)
    \/ \E d \in {1, Routes.query.window} : Tick(d)
    \/ CleanupRuns

GateSpec == GateInit /\ [][GateNext]_vars

(***************************************************************************)
(* The chat interface (ChatInterface): typing, sending, the reply of       *)
(* /api/query arriving, and starting a new chat                            *)
(***************************************************************************)
\* Number.prototype.toString() of a natural number, as its characters.
RECURSIVE toString(_)
toString(n) ==
    LET digit == <<"0", "1", "2", "3", "4", "5", "6", "7", "8", "9">>[(n % 10) + 1]
    IN  IF n < 10 THEN <<digit>> ELSE Append(toString(n \div 10), digit)

\* The message both useState's initial value and startNewChat build. The
\* content of a message is a sequence of pieces of text: the characters the
\* user typed, or the pieces a template is made of.
Greeting ==
    [id |-> <<"1">>, isUser |-> FALSE,
     content |-> <<"Hello! I'm CompanyBrain AI, your intelligent assistant for company knowledge. I can help you find information from your uploaded documents, answer questions about your company's data, and provide insights based on your knowledge base.\n\nWhat would you like to know about your company?">>]

\* What response.json() gives in the conversations followed here: a success
\* with its answer, and an error with its message.
FetchResults ==
    {[success |-> TRUE, answer |-> "Revenue was 100.", error |-> ""],
     [success |-> FALSE, answer |-> "",
      error |-> "Rate limit exceeded. Please try again later."]}

\* The message handleSendMessage appends for result (lines 86-107); its id is
\* (Date.now() + 1).toString().
ReplyMessage(result, t) ==
    [id |-> toString(t + 1), isUser |-> FALSE,
     content |->
        IF result.success
        THEN <<IF result.answer # "" THEN result.answer
               ELSE "I found some relevant information, but I'm having trouble generating a response right now.">>
        ELSE <<"I apologize, but I encountered an issue while processing your question: ",
               IF result.error # "" THEN result.error ELSE "Unknown error",
               ". Please try again.">>]

\* The longest message list the user sends a message from: the greeting and
\* six exchanges, so that the seventh message is sent with twelve earlier
\* messages, of which slice(-10) of line 61 drops the first two.
MaxMessages == 13

\* The most milliseconds that pass while the chat is used.
MaxElapsed == 1

\* onChange of the input field (line 518): setInputMessage(e.target.value).
TypeMessage(text) ==
    /\ inputMessage # text
    /\ inputMessage' = text
    /\ UNCHANGED <<messages, chatFilters, isLoading, fetching, resetSinceSend,
                   handlerVars, contextVars, gateVars>>

\* onChange of a control of the filters panel (lines 321-324, 345-348,
\* 361-364): setFilters(prev => ({...prev, [field]: value ? [value] : undefined})).
\* The key stays in the object when its value becomes undefined.
SetFilter(field, value) ==
    /\ chatFilters' =
          [k \in DOMAIN chatFilters \cup {field} |->
              IF k = field THEN (IF value # "" THEN <<value>> ELSE <<>>)
              ELSE chatFilters[k]]
    /\ chatFilters' # chatFilters
    /\ UNCHANGED <<messages, inputMessage, isLoading, fetching, resetSinceSend,
                   handlerVars, contextVars, gateVars>>

\* onClick of Clear Filters (line 371): setFilters({}).
ClearFilters ==
    /\ chatFilters # NoKeys
    /\ chatFilters' = NoKeys
    /\ UNCHANGED <<messages, inputMessage, isLoading, fetching, resetSinceSend,
                   handlerVars, contextVars, gateVars>>

\* JSON.stringify of `Object.keys(filters).length > 0 ? filters : undefined`
\* (line 77): a key whose value is undefined is left out of the object, an
\* undefined filters out of the body.
SentFilters(f) ==
    IF DOMAIN f = {} THEN "undefined"
    ELSE [k \in {x \in DOMAIN f : f[x] # <<>>} |-> f[k]]

\* Date.now() advances by a millisecond.
TimePasses ==
    /\ now < StartTime + MaxElapsed
    /\ now' = now + 1
    /\ UNCHANGED <<pc, req, admitted, rateLimitStore, esUp, queries, qi, merged,
                   seenIds, searchResults, answer, call, silent, subLog,
                   lastSub, returned, calls, lmOutcome, embedFailed, thrown,
                   env, response>>
    /\ UNCHANGED <<contextVars, gateVars, chatVars>>

\* handleSendMessage up to `await fetch` (lines 42-82).
handleSendMessage ==
    /\ ~(Len(trim(inputMessage)) = 0 \/ isLoading)
    /\ LET userMessage == [id |-> toString(now), isUser |-> TRUE,
                           content |-> inputMessage]
           chatHistory ==
               SliceBack(SelectSeq(messages, LAMBDA msg : msg.id # <<"1">>), 10)
       IN  /\ messages' = Append(messages, userMessage)
           /\ fetching' = Append(fetching,
                 [query |-> inputMessage, filters |-> SentFilters(chatFilters),
                  chatHistory |-> chatHistory, useVectorSearch |-> TRUE,
                  maxResults |-> 10])
    /\ inputMessage' = <<>>
    /\ isLoading' = TRUE
    /\ resetSinceSend' = FALSE
    /\ UNCHANGED <<chatFilters, handlerVars, contextVars, gateVars>>

\* The fetch resolves and response.json() gives result (lines 84-107, 117-119).
ResponseArrives(result) ==
    /\ fetching # <<>>
    /\ messages' = Append(messages, ReplyMessage(result, now))
    /\ fetching' = Tail(fetching)
    /\ isLoading' = FALSE
    /\ UNCHANGED <<inputMessage, chatFilters, resetSinceSend, handlerVars,
                   contextVars, gateVars>>

\* The fetch or response.json() rejects (lines 108-119).
FetchFails ==
    /\ fetching # <<>>
    /\ messages' = Append(messages,
          [id |-> toString(now + 1), isUser |-> FALSE,
           content |-> <<"I apologize, but I'm having trouble connecting to the knowledge base right now. Please try again in a moment.">>])
    /\ fetching' = Tail(fetching)
    /\ isLoading' = FALSE
    /\ UNCHANGED <<inputMessage, chatFilters, resetSinceSend, handlerVars,
                   contextVars, gateVars>>

\* startNewChat (lines 129-138).
startNewChat ==
    /\ messages' = <<Greeting>>
    /\ resetSinceSend' = TRUE
    /\ UNCHANGED <<inputMessage, chatFilters, isLoading, fetching, handlerVars,
                   contextVars, gateVars>>

\* The component after its first render.
ChatInit ==
    /\ RouteIdle
    /\ req = NoRequest
    /\ admitted = FALSE
    /\ now = StartTime
    /\ rateLimitStore = [c \in Clients |-> NoRecord]
    /\ response = NoResponse
    /\ documents = <<>>
    /\ conversation = <<>>
    /\ userQuery = <<>>
    /\ ContextEmpty
    /\ GateIdle
    /\ messages = <<Greeting>>
    /\ inputMessage = <<>>
    /\ chatFilters = NoKeys
    /\ isLoading = FALSE
    /\ fetching = <<>>
    /\ resetSinceSend = FALSE

\* The user types, chooses a document type in the filters panel or clears
\* the filters, sends, and starts a new chat, while time passes and the
\* replies arrive.  The handlers are the code's; the user stops sending once
\* the list is longer than MaxMessages.
ChatNext ==
    \/ \E text \in {Q_empty, Q_blank, Q_hi} : TypeMessage(text)
    \/ \E value \in {"", "csv"} : SetFilter("documentTypes", value)
    \/ ClearFilters
    \/ TimePasses
    \/ (Len(messages) <= MaxMessages /\ handleSendMessage)
    \/ \E result \in FetchResults : ResponseArrives(result)
    \/ FetchFails
    \/ startNewChat

ChatSpec == ChatInit /\ [][ChatNext]_vars

(***************************************************************************)
(* Properties                                                              *)
(***************************************************************************)
Min(a, b) == IF a < b THEN a ELSE b

\* A POST whose body parsed into a QueryRequest.
IsQueryRequest == req.method = "POST" /\ req.body.kind = "ok"

\* The identities of the merged hits.
MergedKeys == {HitKey(merged[k]) : k \in 1..Len(merged)}

\* The sub-queries run so far were all skipped.
AllFailed == \A i \in 1..Len(subLog) : subLog[i] = "failed"

\* C1: in multiSearch with useVectorSearch = true, whenever the hybrid search
\* of a sub-query throws, lexical search is invoked for that same sub-query
\* (and its hits are merged).  The code's catch skips the sub-query instead.
C1_HybridThrowFallsBackToLexical ==
    (IsQueryRequest /\ req.body.useVectorSearch /\ lastSub.hybrid = "threw")
        => lastSub.text # "none"

\* C2: when the health check of the document index fails, a query request is
\* answered 503 and no embedding, search or language-model call is made.
\* handleQuery never runs the health check.
C2_UnhealthyIndexRejected ==
    (IsQueryRequest /\ admitted /\ ~checkElasticsearchHealth)
        => /\ calls = NoCalls
           /\ (pc = "done" /\ Len(queries) > 0) => response.status = 503

\* C3: a query request whose query is longer than 1000 characters is
\* answered with a 4xx status and makes no embedding, search or
\* language-model call.  querySchema is never applied.
C3_OversizedQueryRejected ==
    (IsQueryRequest /\ Len(req.body.query) > QueryMaxLength)
        => /\ calls = NoCalls
           /\ pc = "done" => response.status \in 400..499

\* The queries of the requests that are empty once sanitized and trimmed.
EmptyQueries ==
    {q \in QueryInputs \cup LargeQueryInputs \cup PlannedQueryInputs :
        Len(trim(sanitizeInput(q))) = 0}

\* C4: a query request whose query is empty, or empty once sanitized and
\* trimmed, is answered 400 by handleQuery (429 when the rate limiter did
\* not let it through to handleQuery) with success = false, and makes no
\* embedding, search or language-model call.
C4_EmptyQueryRejected ==
    (IsQueryRequest /\ req.body.query \in EmptyQueries /\ pc # "body")
        => /\ pc = "done"
           /\ calls = NoCalls
           /\ ~response.success
           /\ response.status = IF admitted THEN 400 ELSE 429

C4_Witness ==
    /\ pc = "done" /\ IsQueryRequest /\ admitted
    /\ req.body.query = Q_handler
    /\ response.status = 400

\* C5: a sub-query whose search call throws is skipped and the loop goes on:
\* the number of finished sub-queries follows the loop position whatever
\* failed, all min(6, n) sub-queries are finished when the response is
\* built, the merged list holds exactly the hits (by identity) returned to
\* the sub-queries that did not throw, and the response carries its first
\* maxResults entries.
C5_FailedSubQuerySkipped ==
    (IsQueryRequest /\ Len(queries) > 0)
        => /\ pc = "await" /\ call.kind # "generate" => Len(subLog) = qi - 1
           /\ (pc = "done" \/ call.kind = "generate")
                => Len(subLog) = Min(MaxSubQueries, Len(queries))
           /\ MergedKeys = {HitKey(h) : h \in returned}
           /\ Range(merged) \subseteq returned
           /\ pc = "done"
                => /\ searchResults = SliceFront(merged, req.body.maxResults)
                   /\ response.totalHits = Len(searchResults)

C5_Witness ==
    /\ pc = "done"
    /\ subLog = <<"failed", "ok", "failed">>
    /\ returned = {"hitA", "hitC"}
    /\ response.totalHits = 2

\* C6: every POST to the query endpoint ends in a well-formed JSON response:
\* success is true with data and status 200, or false with an error message
\* and an error status; no exception reaches the caller, whatever the body
\* and whatever each embedding, search and language-model call did.
C6_WellFormedResponse ==
    /\ pc # "thrown"
    /\ (pc = "done" /\ req.method = "POST")
         => /\ response.body = "json"
            /\ response.success
                 => (response.hasData /\ response.error = ""
                     /\ response.status = 200 /\ response.answer # "")
            /\ ~response.success
                 => (~response.hasData /\ response.error # ""
                     /\ response.status \in 400..599)

C6_Witness ==
    /\ pc = "done" /\ IsQueryRequest
    /\ Len(subLog) = Len(queries) /\ Len(queries) > 1 /\ AllFailed
    /\ lmOutcome = "network"
    /\ response.success

\* The handler goes on from its pending call.
HandlerResumes ==
    \/ \E ok \in BOOLEAN : EmbeddingResponds(ok)
    \/ \E out \in SearchOutcomes(call.size) : HybridResponds(out)
    \/ \E out \in SearchOutcomes(call.size) : TextResponds(out)
    \/ \E outcome \in ModelOutcomes : ModelResponds(outcome)

\* C7: every external call is bounded by a timeout, so a request whose
\* collaborator never answers still gets a response: in a state where the
\* pending call will never be answered, the handler has a step to take.
\* The code's fetch calls carry no timeout or abort signal.
C7_SilentCollaboratorTimesOut ==
    (pc = "await" /\ silent) => ENABLED HandlerResumes

\* C8: when the language-model call fails after the search phase, the
\* response is a success whose answer is the apology of that failure and
\* whose sources and totalHits are those of the merged hits (cut to
\* maxResults).
C8_ModelFailureKeepsSources ==
    (pc = "done" /\ lmOutcome \in ModelThrows \cup {"nocandidate"})
        => /\ response.status = 200 /\ response.success
           /\ response.answer \in {ApologyProcessing, ApologyUnable}
           /\ response.totalHits = Len(SliceFront(merged, req.body.maxResults))
           /\ Len(response.sources) = response.totalHits
           /\ \A i \in 1..Len(response.sources) :
                /\ response.sources[i].id = Doc(merged[i]).id
                /\ response.sources[i].title = Doc(merged[i]).title
                /\ response.sources[i].relevanceScore = Doc(merged[i]).score

C8_Witness ==
    /\ pc = "done" /\ lmOutcome = "non2xx"
    /\ merged = <<"hitC", "hitB">>
    /\ response.totalHits = 2
    /\ response.answer = ApologyProcessing

\* C9 as claimed: the answer of a failed synthesis is one and the same string
\* for a network error, a non-2xx status and a response without candidate
\* text.
C9_OneApologyForEveryFailure ==
    (pc = "done" /\ lmOutcome \in {"network", "non2xx", "nocandidate"})
        => /\ response.success
           /\ response.answer = ApologyProcessing

\* C9, amended: the answer of a failed synthesis is a fixed apology decided
\* by the kind of failure alone: the "trouble processing" apology when the
\* call throws (network error, non-2xx status, unparsable body), the
\* "unable to generate" apology when the response has no candidate text;
\* the failure is never raised (the response is a success).
C9_ApologyPerFailureKind ==
    (pc = "done" /\ lmOutcome \in ModelThrows \cup {"nocandidate"})
        => /\ response.success
           /\ lmOutcome \in ModelThrows => response.answer = ApologyProcessing
           /\ lmOutcome = "nocandidate" => response.answer = ApologyUnable

C9_Witness ==
    /\ pc = "done" /\ lmOutcome = "nocandidate"
    /\ response.success
    /\ response.answer = ApologyUnable

\* C10: if every sub-query of a request fails, the response is a success
\* with sources = [], totalHits = 0 and a non-empty answer.
C10_AllSubQueriesFail ==
    (pc = "done" /\ Len(subLog) > 0 /\ AllFailed)
        => /\ response.status = 200 /\ response.success /\ response.hasData
           /\ response.sources = <<>>
           /\ response.totalHits = 0
           /\ response.answer # ""

C10_Witness ==
    /\ pc = "done" /\ esUp
    /\ Len(subLog) = 3 /\ AllFailed
    /\ req.body.chatHistory = "string"
    /\ response.answer = ApologySearching

\* C11: for a maxResults in 1..50 the hit list multiSearch returns is never
\* longer than maxResults, and neither are the sources and totalHits of the
\* response built from it.
C11_AtMostMaxResults ==
    (IsQueryRequest /\ req.body.maxResults \in 1..50)
        => /\ Len(searchResults) <= req.body.maxResults
           /\ (pc = "done" /\ response.success)
                => /\ Len(response.sources) <= req.body.maxResults
                   /\ response.totalHits <= req.body.maxResults

C11_Witness ==
    /\ pc = "done" /\ IsQueryRequest
    /\ req.body.maxResults = 1
    /\ Len(merged) = 2
    /\ Len(searchResults) = 1
    /\ response.totalHits = 1

\* The position in rs of the first hit with identity `key`.
FirstIndex(rs, key) ==
    CHOOSE i \in 1..Len(rs) :
        /\ HitKey(rs[i]) = key
        /\ \A j \in 1..(i - 1) : HitKey(rs[j]) # key

\* C12: the merged list holds no identity (id || _id || title:createdAt)
\* twice, and merging one more result list, whatever it holds, keeps the
\* merged hits where they are and appends exactly the first occurrence of
\* each identity not seen before, in the order of the list (the lists a
\* search can return, and lists that hold one document twice).
C12_MergedOnceInFirstSeenOrder ==
    (IsQueryRequest /\ Len(queries) > 0)
        => /\ \A i, j \in 1..Len(merged) :
                i # j => HitKey(merged[i]) # HitKey(merged[j])
           /\ seenIds = MergedKeys
           /\ (pc = "await" /\ ~silent /\ call.kind \in {"hybrid", "text"})
                => \A rs \in ResultLists(call.size)
                             \cup {<<"hitA", "hitB">>, <<"hitB", "hitA">>} :
                     LET m == MergeResults(merged, rs)
                         n == Len(merged)
                     IN  /\ Len(m) >= n
                         /\ SubSeq(m, 1, n) = merged
                         /\ \A i, j \in 1..Len(m) :
                              i # j => HitKey(m[i]) # HitKey(m[j])
                         /\ {HitKey(m[k]) : k \in 1..Len(m)}
                              = MergedKeys \cup {HitKey(rs[k]) : k \in 1..Len(rs)}
                         /\ \A k \in (n + 1)..Len(m) :
                              /\ m[k] = rs[FirstIndex(rs, HitKey(m[k]))]
                              /\ \A l \in (k + 1)..Len(m) :
                                   FirstIndex(rs, HitKey(m[k]))
                                     < FirstIndex(rs, HitKey(m[l]))

C12_Witness ==
    /\ pc = "done" /\ IsQueryRequest
    /\ returned = {"hitA", "hitB", "hitC"}
    /\ merged = <<"hitB", "hitC">>
    /\ Len(response.sources) = 2
    /\ response.sources[1].relevanceScore = Doc("hitB").score

\* C13: multiSearch runs at most 6 sub-queries, the first 6 entries of the
\* query list in list order: the pending embedding or search call is for
\* queries[qi] with qi <= 6 (the embedding request carries its first 1000
\* characters), the sub-queries before it have all finished, and no more
\* than 6 calls of a kind are made.
C13_AtMostSixSubQueries ==
    (IsQueryRequest /\ Len(queries) > 0)
        => /\ Len(subLog) <= MaxSubQueries
           /\ calls.embed <= MaxSubQueries
           /\ calls.hybrid <= MaxSubQueries
           /\ calls.text <= 2 * MaxSubQueries
           /\ (pc = "await" /\ call.kind \in {"embed", "hybrid", "text"})
                => /\ qi \in 1..MaxSubQueries
                   /\ qi = Len(subLog) + 1
                   /\ call.query =
                        IF call.kind = "embed"
                        THEN SliceFront(queries[qi], EmbeddingTextLength)
                        ELSE queries[qi]

C13_Witness ==
    /\ pc = "done" /\ IsQueryRequest
    /\ Len(queries) > MaxSubQueries
    /\ Len(subLog) = MaxSubQueries
    /\ calls.embed = MaxSubQueries

\* The sub-queries started so far.
Started ==
    IF pc = "await" /\ call.kind \in {"embed", "hybrid", "text"}
    THEN qi ELSE Len(subLog)

\* C14: nothing is retried.  The language model is called at most once per
\* request; a started sub-query makes at most one embedding call, one hybrid
\* search and one lexical search; with vector search on, a lexical search is
\* only made after the hybrid search of the same sub-query returned nothing,
\* and a hybrid search after the embedding call of the sub-query unless
\* generateEmbedding has no configuration to call with; with vector search
\* off, no embedding or hybrid call is made.
C14_NoRetry ==
    (IsQueryRequest /\ Len(queries) > 0)
        => /\ calls.generate <= 1
           /\ calls.embed <= Started
           /\ calls.hybrid <= Started
           /\ calls.text <= Started
           /\ req.body.useVectorSearch
                => /\ GeminiConfigured => calls.hybrid <= calls.embed
                   /\ ~GeminiConfigured => calls.embed = 0
                   /\ calls.text <= calls.hybrid
                   /\ (pc = "await" /\ call.kind = "text") => calls.hybrid = qi
                   /\ lastSub.text # "none" => lastSub.hybrid = "empty"
           /\ ~req.body.useVectorSearch
                => (calls.embed = 0 /\ calls.hybrid = 0)

C14_Witness ==
    /\ pc = "done" /\ IsQueryRequest /\ req.body.useVectorSearch
    /\ calls = [embed |-> 3, hybrid |-> 3, text |-> 3, generate |-> 1]

\* C15: a failed embedding call does not throw: every embedding call that
\* has ended, failed or not, was followed by the hybrid search of the same
\* sub-query (with the zero vector after a failure, and when
\* generateEmbedding throws before its request for want of configuration),
\* and a request whose embedding failed is answered with a success response.
C15_EmbeddingFailureAbsorbed ==
    (IsQueryRequest /\ Len(queries) > 0)
        => /\ GeminiConfigured
                => calls.hybrid =
                     calls.embed
                       - (IF pc = "await" /\ call.kind = "embed" THEN 1 ELSE 0)
           /\ (pc = "await" /\ call.kind = "hybrid")
                => /\ call.query = queries[qi]
                   /\ call.embedding \in {"vector", "zero"}
                   /\ call.embedding = "zero" => embedFailed
                   /\ ~GeminiConfigured => call.embedding = "zero"
           /\ (pc = "done" /\ embedFailed)
                => (response.status = 200 /\ response.success
                    /\ response.error = "")

C15_Witness ==
    /\ pc = "done" /\ IsQueryRequest /\ embedFailed
    /\ calls.embed = 3 /\ calls.hybrid = 3
    /\ returned = {"hitA"}
    /\ response.success /\ response.totalHits = 1

\* The query holds none of the keywords of the six metric groups.
NoMetricKeyword(q) ==
    /\ \A kw \in {S_revenue, S_sales, S_profit, S_ebitda, S_assets,
                  S_liabilities, S_equity} : ~Contains(q, kw)
    /\ \A i \in 1..Len(q) : ~NetIncomeAt(q, i)

\* C20: the plan made for a request (from queries[1], the sanitized query)
\* has a non-empty metrics list; for a query without any metric keyword the
\* list is exactly <<"revenue">>, and "revenue" is then the one query the
\* planner adds.
C20_MetricsNeverEmpty ==
    (IsQueryRequest /\ Len(queries) > 0 /\ Len(subLog) = 0)
        => LET plan == planInformationNeeds(queries[1])
           IN  /\ Len(plan.metrics) > 0
               /\ queries = <<queries[1]>> \o plan.searchQueries
               /\ NoMetricKeyword(queries[1])
                    => /\ plan.metrics = <<S_revenue>>
                       /\ plan.years = <<>> => queries[Len(queries)] = S_revenue

C20_Witness ==
    /\ pc = "done" /\ IsQueryRequest
    /\ queries = <<<<"b","h","i">>, <<"b","h","i">>, S_revenue>>
    /\ NoMetricKeyword(queries[1])
    /\ Len(subLog) = 3

(***************************************************************************)
(* Properties of the grounding context (ContextSpec)                       *)
(***************************************************************************)
\* C16: every fact extractMetricYearFacts emits, from a table or from
\* prose, has a year of four digits in 1900..2099.  The prose heuristic
\* takes the year from group 2 of its pattern, (19|20), the century alone.
C16_FactYearsFourDigits ==
    "facts" \in stage
        => \A i \in 1..Len(metricFacts) :
              /\ Len(metricFacts[i].year) = 4
              /\ YearDigitsAt(metricFacts[i].year, 1)

\* C17: extractMetricYearFacts holds one entry per (metric, year), the sum
\* of what the rows and documents state for the pair.  The code pushes one
\* fact per row and column.
C17_FactsSummedPerMetricYear ==
    "facts" \in stage
        => \A i, j \in 1..Len(metricFacts) :
              (/\ metricFacts[i].metric = metricFacts[j].metric
               /\ metricFacts[i].year = metricFacts[j].year) => i = j

\* The revenue a hit states for year y, one amount per row in row order,
\* read as a table: the header line is the first non-empty line of the
\* content that holds a comma and the word revenue; the revenue column is
\* the first whose header holds "revenue", the period column the first
\* whose header holds one of periodWords; a row is a later non-empty line
\* with a comma whose revenue cell states an amount and whose period cell
\* holds y (anywhere in the cell when everyYear, as the first year of the
\* cell otherwise).  A hit that is no csv document states nothing.
StatedAmounts(doc, y, periodWords, everyYear) ==
    LET lines == NonEmptyLines(SplitLines(doc.content))
        heads == {i \in 1..Len(lines) :
                    Includes(lines[i], ",") /\ Contains(lines[i], S_revenue)}
    IN  IF doc.type # S_csv \/ heads = {} THEN <<>>
        ELSE LET h         == First(heads)
                 cells     == [i \in 1..Len(lines) |-> split(lines[i], ",")]
                 header    == [k \in 1..Len(cells[h]) |-> trim(cells[h][k])]
                 periods   == {k \in 1..Len(header) :
                                 \E w \in periodWords : Contains(header[k], w)}
                 revenues  == {k \in 1..Len(header) : Contains(header[k], S_revenue)}
                 Counts(i) ==
                     /\ i > h
                     /\ Includes(lines[i], ",")
                     /\ periods # {}
                     /\ HasCell(cells[i], First(periods))
                     /\ ~CellNumber(cells[i], First(revenues)).nan
                     /\ LET cell == cells[i][First(periods)]
                        IN  IF everyYear
                            THEN \E j \in 1..Len(cell) :
                                    YearDigitsAt(cell, j) /\ SubSeq(cell, j, j + 3) = y
                            ELSE /\ YearMatch(cell) # 0
                                 /\ SubSeq(cell, YearMatch(cell), YearMatch(cell) + 3) = y
                 rows      == SelectSeq([i \in 1..Len(lines) |-> i], Counts)
             IN  [j \in 1..Len(rows) |-> CellNumber(cells[rows[j]], First(revenues))]

\* x1 + x2 + ... + xn, added from the left in double precision.
RECURSIVE Sum(_)
Sum(xs) ==
    IF Len(xs) = 0 THEN Zero
    ELSE Plus(Sum(SubSeq(xs, 1, Len(xs) - 1)), xs[Len(xs)])

\* The years for which some hit states revenue.
StatedYears(docs, periodWords, everyYear) ==
    LET Years(text) == {SubSeq(text, j, j + 3) :
                          j \in {a \in 1..Len(text) : YearDigitsAt(text, a)}}
        years == UNION {Years(docs[i].content) :
                          i \in {d \in 1..Len(docs) : docs[d].type = S_csv}}
    IN  {y \in years :
           \E i \in 1..Len(docs) :
              Len(StatedAmounts(docs[i], y, periodWords, everyYear)) > 0}

\* year -> the revenue the hits state for it: the sum of each hit's rows,
\* in row order, and the sum of these sums, in hit order.
StatedRevenue(docs, periodWords, everyYear) ==
    [y \in StatedYears(docs, periodWords, everyYear) |->
        Sum([i \in 1..Len(docs) |->
               Sum(StatedAmounts(docs[i], y, periodWords, everyYear))])]

\* The example of C18: the rows Jan-2021,1000 and Feb-2021,2000 under the
\* header Month,Revenue give {2021: 3000}.
RevenueOfExample ==
    documents = Uploaded(<<MonthTable(<<"s","a","l","e","s",".","c","s","v">>, ExampleRows)>>)
        => promptContext.financials = [y \in {<<"2","0","2","1">>} |-> Whole(3000)]

\* C18 as claimed: RevenueByYear[y] is the sum of the revenue cells of all
\* rows whose period cell (the column headed month, date or period) holds
\* year y, over the csv documents that mention revenue; rows without a year
\* or with an unparsable revenue cell add nothing.
C18_RevenueSummedOverPeriodRows ==
    "prompt" \in stage
        => /\ promptContext.financials
                = StatedRevenue(documents,
                                {S_month, <<"d","a","t","e">>,
                                 <<"p","e","r","i","o","d">>},
                                TRUE)
           /\ RevenueOfExample

\* C18, amended: RevenueByYear[y] is the double-precision sum of the revenue
\* cells of the rows whose month cell has y as its first year, over the csv
\* hits: per hit in row order, the hits' sums added in hit order.  The
\* month cell is the cell of the first column whose header holds "month"; a
\* table without such a column (headed Date, say) adds nothing, a cell that
\* names two years counts for the first only, and a row without a year in
\* the month cell or with an unparsable revenue cell adds nothing.
C18_RevenueSummedOverMonthRows ==
    "prompt" \in stage
        => /\ promptContext.financials = StatedRevenue(documents, {S_month}, FALSE)
           /\ RevenueOfExample

\* The rows Jun-2021,0.1 and Jul-2021,0.2: their sum is the double
\* 0.30000000000000004 = 1351079888211149 * 2^-52, not the double 0.3.
C18_Witness ==
    /\ "prompt" \in stage
    /\ documents = Uploaded(<<MonthTable(<<"s","a","l","e","s",".","c","s","v">>,
                                         <<<<"J","u","n","-","2","0","2","1",",","0",".","1">>,
                                           <<"J","u","l","-","2","0","2","1",",","0",".","2">>>>)>>)
    /\ DOMAIN promptContext.financials = {<<"2","0","2","1">>}
    /\ promptContext.financials[<<"2","0","2","1">>].exponent = 0 - 52
    /\ Len(promptContext.financials[<<"2","0","2","1">>].mantissa) = 51
    /\ promptContext.financials[<<"2","0","2","1">>] # Decimal(FALSE, <<"3">>, 1)

\* The rendering of the hits and turns that C19 describes.
PromptRendersFirstAndLast ==
    LET n == Len(documents)
        m == Len(conversation)
        k == Len(promptContext.entries)
        l == Len(promptContext.turns)
    IN  /\ k = Min(PromptHits, n)
        /\ l = Min(PromptTurns, m)
        /\ promptContext.count = n
        /\ \A i \in 1..k :
             LET e == promptContext.entries[i]
                 c == documents[i].content
             IN  /\ e.ordinal = i
                 /\ e.title = documents[i].title
                 /\ LowerStr(e.type) = documents[i].type
                 /\ \A x \in 1..Len(e.type) : e.type[x] \in UpperSet
                 /\ Len(e.content)
                      <= PromptContentLength + Len(S_ellipsis)
                 /\ \A x \in 1..Min(PromptContentLength, Len(c)) :
                      e.content[x] = c[x]
                 /\ IF Len(c) > PromptContentLength
                    THEN /\ Len(e.content) = PromptContentLength + 3
                         /\ SubSeq(e.content, PromptContentLength + 1,
                                   PromptContentLength + 3) = S_ellipsis
                    ELSE e.content = c
        /\ \A j \in 1..l :
             LET u == promptContext.turns[j]
                 c == conversation[m - l + j].content
             IN  /\ u.role = IF conversation[m - l + j].isUser
                             THEN "User" ELSE "Assistant"
                 /\ Len(u.content) <= PromptTurnLength + Len(S_ellipsis)
                 /\ \A x \in 1..Min(PromptTurnLength, Len(c)) :
                      u.content[x] = c[x]
                 /\ IF Len(c) > PromptTurnLength
                    THEN /\ Len(u.content) = PromptTurnLength + 3
                         /\ SubSeq(u.content, PromptTurnLength + 1,
                                   PromptTurnLength + 3) = S_ellipsis
                    ELSE u.content = c

\* C19 as claimed: the prompt renders exactly the first min(5, n) hits in
\* order with ordinals 1..k, each content cut to its first 300 characters
\* plus "..." when longer, and exactly the last min(6, m) turns in order,
\* each cut to its first 200 characters plus "..." when longer; and no
\* other hit appears: the financial block in front of the prompt states
\* the revenue of the first min(5, n) hits.
C19_PromptOfFirstHitsOnly ==
    "prompt" \in stage
        => /\ PromptRendersFirstAndLast
           /\ promptContext.financials
                = StatedRevenue(SliceFront(documents, PromptHits), {S_month}, FALSE)

\* C19, amended: the hits and turns are rendered as claimed, and no other
\* hit or turn is rendered; but the financial block in front of the prompt
\* is drawn from all n hits: it has a year exactly when some csv hit, at
\* whatever position, states revenue for it.
C19_PromptBounded ==
    "prompt" \in stage
        => /\ PromptRendersFirstAndLast
           /\ DOMAIN promptContext.financials
                = StatedYears(documents, {S_month}, FALSE)

\* Six hits and seven turns: five hits and six turns are rendered, the
\* third hit cut at 300 characters, and the sixth hit, a table of the
\* revenue of 2020, is in the financial block.
C19_Witness ==
    /\ "prompt" \in stage
    /\ Len(documents) = 6 /\ Len(conversation) = 7
    /\ Len(promptContext.entries) = 5 /\ Len(promptContext.turns) = 6
    /\ Len(documents[3].content) = 301
    /\ Len(promptContext.entries[3].content) = 303
    /\ promptContext.turns[1].role = "Assistant"
    /\ documents[6].type = S_csv
    /\ promptContext.entries[2].type = <<"C","S","V">>
    /\ DOMAIN promptContext.financials = {<<"2","0","2","0">>, <<"2","0","2","1">>}
    /\ promptContext.financials[<<"2","0","2","0">>] = Whole(500)


\* The list the plan's queries are taken from: the query, then per metric
\* the metric with all years and the metric with each year, or the metric
\* alone when there is no year.
PlannedList(q, metrics, years) ==
    LET per == 1 + Len(years)
    IN  IF Len(years) = 0
        THEN <<q>> \o metrics
        ELSE [k \in 1..(1 + Len(metrics) * per) |->
                IF k = 1 THEN q
                ELSE LET m == metrics[((k - 2) \div per) + 1]
                         r == (k - 2) % per
                     IN  IF r = 0 THEN m \o <<" ">> \o join(years, <<" ">>)
                         ELSE m \o <<" ">> \o years[r]]

\* The position of the first occurrence of x in the list xs.
FirstAt(xs, x) ==
    CHOOSE i \in 1..Len(xs) : xs[i] = x /\ \A j \in 1..(i - 1) : xs[j] # x

\* C21: the plan's searchQueries are the planned list (the query, then per
\* metric the metric with all years joined and the metric with each year,
\* or the metric alone when no year is named) with every repetition after
\* the first dropped and the order kept; so the list is never empty, starts
\* with the query, repeats nothing, and holds "<metric> <year>" for every
\* planned metric and year.
C21_SearchQueriesPlanned ==
    "plan" \in stage
        => LET sq   == queryPlan.searchQueries
               list == PlannedList(userQuery, queryPlan.metrics, queryPlan.years)
           IN  /\ Len(sq) > 0
               /\ sq[1] = userQuery
               /\ \A i, j \in 1..Len(sq) : i # j => sq[i] # sq[j]
               /\ Range(sq) = Range(list)
               /\ \A i, j \in 1..Len(sq) :
                     i < j => FirstAt(list, sq[i]) < FirstAt(list, sq[j])
               /\ \A m \in Range(queryPlan.metrics), y \in Range(queryPlan.years) :
                     (m \o <<" ">> \o y) \in Range(sq)

C21_Witness ==
    /\ "plan" \in stage
    /\ userQuery = <<"C","o","m","p","a","r","e"," ","r","e","v","e","n","u","e"," ","i","n"," ",
                     "2","0","2","1"," ","a","n","d"," ","2","0","2","0">>
    /\ queryPlan.years = << <<"2","0","2","1">>, <<"2","0","2","0">> >>
    /\ queryPlan.searchQueries =
          <<userQuery,
            <<"r","e","v","e","n","u","e"," ","2","0","2","1"," ","2","0","2","0">>,
            <<"r","e","v","e","n","u","e"," ","2","0","2","1">>,
            <<"r","e","v","e","n","u","e"," ","2","0","2","0">> >>


(***************************************************************************)
(* Properties of the query route, continued (Spec)                         *)
(***************************************************************************)
\* C22: no error response carries internal details: it has no details
\* field and its error is one of the fixed messages of the code; an
\* exception that escapes the orchestration is answered with status 500
\* and the same body whatever the exception was.
C22_NoInternalDetails ==
    (pc = "done" /\ response.body = "json" /\ ~response.success)
        => /\ response.details = "none"
           /\ response.error # thrown
           /\ response.status >= 500
                => /\ thrown \in {BodySyntaxError, QueryTypeError, HistoryNullError}
                   /\ response =
                        createErrorResponse(
                            "Internal server error during query processing", 500)

C22_Witness ==
    /\ pc = "done"
    /\ thrown = HistoryNullError
    /\ response.status = 500
    /\ response.error = "Internal server error during query processing"


\* C26: with useVectorSearch = true, a hybrid search that returns no hit is
\* followed by the lexical search of the same query with the same filters
\* and size, and one that returns a hit is followed by no lexical search for
\* that sub-query; with useVectorSearch = false no embedding is requested
\* and no hybrid search made.
C26_LexicalFallbackOnNoHits ==
    /\ []((IsQueryRequest /\ ~req.body.useVectorSearch)
            => (calls.embed = 0 /\ calls.hybrid = 0 /\ call.kind \notin {"embed", "hybrid"}))
    /\ [][(pc = "await" /\ call.kind = "hybrid" /\ ~silent)
            => \A out \in SearchOutcomes(call.size) :
                  (HybridResponds(out) /\ ~out.threw)
                    => IF Len(out.hits) = 0
                       THEN /\ pc' = "await"
                            /\ call'.kind = "text"
                            /\ call'.query = call.query
                            /\ call'.filters = call.filters
                            /\ call'.size = call.size
                            /\ calls'.text = calls.text + 1
                       ELSE /\ calls'.text = calls.text
                            /\ call'.kind # "text"
                            /\ lastSub'.text = "none"]_vars

C26_Witness ==
    /\ pc = "await" /\ call.kind = "text"
    /\ req.body.useVectorSearch
    /\ call.query = queries[qi]
    /\ call.filters = <<[kind |-> "terms", field |-> "metadata.department.keyword",
                         values |-> <<"finance">>],
                        [kind |-> "range", field |-> "createdAt",
                         values |-> <<"2021-01-01", "2021-12-31">>]>>
    /\ calls = [embed |-> 2, hybrid |-> 2, text |-> 1, generate |-> 0]
    /\ subLog = <<"ok">>


\* C27: the sub-queries multiSearch has started for a request are pairwise
\* distinct strings.  handleQuery (line 473) puts the sanitized query in
\* front of plan.searchQueries, whose first element is that same query.
C27_SubQueriesDistinct ==
    (IsQueryRequest /\ qi >= 1)
        => \A i, j \in 1..qi : i # j => queries[i] # queries[j]

(***************************************************************************)
(* Properties of withSecurity across the routes (GateSpec)                 *)
(***************************************************************************)
\* C23: a request to an endpoint with limit L is answered 429 only if the
\* client had already made L requests to that same endpoint in the current
\* window (made counts the rejected request itself).
C23_RejectedOnlyByOwnEndpoint ==
    (response.status = 429 /\ ~admitted /\ events >= 1)
        => made[req.endpoint] > Routes[req.endpoint].limit

\* C24: within one window of the client's record at most L requests are
\* passed to the handler of an endpoint with limit L, and every further
\* request to it in that window is answered 429 with success = false and is
\* not added to the requests in their handler, whatever requests are in
\* their handlers when it arrives.
C24_AtMostLimitPerWindow ==
    /\ [](\A e \in DOMAIN Routes : passed[e] <= Routes[e].limit)
    /\ [][\A r \in GateRequests :
            (/\ Request(r)
             /\ r.method # "OPTIONS"
             /\ r.method \in Routes[r.endpoint].allowedMethods
             /\ ~RateLimitFresh(rateLimitStore, r.clientId, now)
             /\ passed[r.endpoint] >= Routes[r.endpoint].limit)
            => /\ response'.status = 429
               /\ response'.success = FALSE
               /\ admitted' = FALSE
               /\ passed' = passed
               /\ inHandler' = inHandler]_vars

\* The limit of an endpoint was reached in the window and a further
\* request to it was answered 429 while the request that reached the limit
\* was still in its handler.
C24_Witness ==
    /\ events >= 2
    /\ response.status = 429
    /\ ~admitted
    /\ passed[req.endpoint] = Routes[req.endpoint].limit
    /\ made[req.endpoint] > Routes[req.endpoint].limit
    /\ \E r \in GateRequests : BagIn(r, inHandler) /\ r.endpoint = req.endpoint

\* C25: a request that is not a preflight and whose Origin header is not in
\* the list of allowed origins is never passed to the route handler.
C25_OnlyAllowedOrigins ==
    (events >= 1 /\ admitted /\ req.method # "OPTIONS" /\ req.origin # "")
        => req.origin \in AllowedOrigins

\* C28: a request answered 429 leaves the client's record (count and reset
\* time) as it was, and the first request made after the record's reset time
\* is passed to the handler and starts a new window, however many requests
\* were rejected before and whatever requests are in their handlers.
C28_RejectionKeepsRecord ==
    [][\A r \in GateRequests :
         Request(r) =>
           /\ response'.status = 429 => rateLimitStore' = rateLimitStore
           /\ (/\ r.method # "OPTIONS"
               /\ r.method \in Routes[r.endpoint].allowedMethods
               /\ rateLimitStore[r.clientId].present
               /\ now > rateLimitStore[r.clientId].resetTime)
              => /\ admitted'
                 /\ BagIn(r, inHandler')
                 /\ rateLimitStore'[r.clientId].count = 1
                 /\ rateLimitStore'[r.clientId].resetTime
                      = now + Routes[r.endpoint].window]_vars

\* The client was rejected more than once while an admitted request was in
\* its handler, the window ended, and its next request was passed to the
\* handler.
C28_Witness ==
    /\ rejections >= 2
    /\ overlapped
    /\ admitted
    /\ BagIn(req, inHandler)
    /\ rateLimitStore[req.clientId].count = 1
    /\ made[req.endpoint] = 1

\* C30: whatever cleanups of the store run between the requests and while
\* requests are in their handlers, rateLimit gives every request the result
\* it gives on the store that no cleanup has touched; the cleanup removes
\* only records whose window has ended.
C30_CleanupKeepsDecisions ==
    /\ [][\A r \in GateRequests :
            (/\ Request(r)
             /\ r.method # "OPTIONS"
             /\ r.method \in Routes[r.endpoint].allowedMethods)
            => admitted' = rateLimit(plainStore, r.clientId,
                                     Routes[r.endpoint].limit, now)]_vars
    /\ [](\A c \in DOMAIN rateLimitStore :
            rateLimitStore[c] # plainStore[c]
                => /\ ~rateLimitStore[c].present
                   /\ plainStore[c].present
                   /\ now > plainStore[c].resetTime)

\* A request was in its handler when the cleanup removed the client's
\* record, and the request that came next was decided as on the store
\* without cleanup, after an earlier rejection.
C30_Witness ==
    /\ afterCleanup
    /\ admitted
    /\ BagCardinality(inHandler) >= 2
    /\ rejections >= 1

(***************************************************************************)
(* Properties of the chat interface (ChatSpec)                             *)
(***************************************************************************)
\* C29: after startNewChat the message list holds only the greeting until
\* the user sends a new message.
C29_OnlyGreetingAfterReset ==
    resetSinceSend => messages = <<Greeting>>

====
